---- MODULE Spec2Model ----
(***************************************************************************)
(* A model of aofei/servemux (servemux.go): pattern registration           *)
(* (ServeMux.Handle, parsePattern, insert), and request matching           *)
(* (ServeMux.ServeHTTP, Handler, handler, match).                          *)
(*                                                                         *)
(* Strings are sequences of one-character strings.  Go indices are         *)
(* 0-based; the operators below take and return Go indices and convert at  *)
(* the point of access, so the arithmetic reads like the source.           *)
(***************************************************************************)
EXTENDS Integers, Sequences, FiniteSets, TLC

(***************************************************************************)
(* Bounds of the model.                                                    *)
(***************************************************************************)
\* Number of Handle calls that register a pattern.
MaxHandles == 3
\* Number of '/'-separated segments of a request path.
MaxSegs == 3

(***************************************************************************)
(* Program constants.                                                      *)
(***************************************************************************)
\* make([]*serveMuxNode, 255): the length of a node's static-child table.
TableLen == 255
\* http.StatusMovedPermanently
StatusMovedPermanently == 301
\* http.StatusNotFound
StatusNotFound == 404
\* http.StatusMethodNotAllowed
StatusMethodNotAllowed == 405
\* The nil pointer / nil interface / nil slice.
Nil == 0

\* The nil http.Handler; the other handlers are strings too.
NilHandler == "nil"

\* serveMuxNodeType
nonvarServeMuxNode == 0
unmodifiedVarServeMuxNode == 1
ellipsisModifiedVarServeMuxNode == 2

(***************************************************************************)
(* Bytes.  Byte(c) is the value of the byte c; only the bytes the model    *)
(* uses are listed.  "0xFF" stands for the single byte 255.                *)
(***************************************************************************)
Letters == {"a", "b", "c", "h", "x", "y", "z", "G", "P", "C"}
Digits == {"1"}

Byte(c) ==
    CASE c = " " -> 32
      [] c = "$" -> 36
      [] c = "." -> 46
      [] c = "/" -> 47
      [] c = "1" -> 49
      [] c = ":" -> 58
      [] c = "C" -> 67
      [] c = "G" -> 71
      [] c = "P" -> 80
      [] c = "[" -> 91
      [] c = "]" -> 93
      [] c = "_" -> 95
      [] c = "a" -> 97
      [] c = "b" -> 98
      [] c = "c" -> 99
      [] c = "h" -> 104
      [] c = "x" -> 120
      [] c = "y" -> 121
      [] c = "z" -> 122
      [] c = "{" -> 123
      [] c = "}" -> 125
      [] c = "0xFF" -> 255

(***************************************************************************)
(* The string functions of the Go library that the code calls.             *)
(***************************************************************************)
\* s[i:] with a Go index i
From(s, i) == SubSeq(s, i + 1, Len(s))
\* s[:j] with a Go index j
Upto(s, j) == SubSeq(s, 1, j)
\* s[i:j]
Slice(s, i, j) == SubSeq(s, i + 1, j)
\* s[i]
At(s, i) == s[i + 1]

\* strings.IndexAny(s, chars): the Go index of the first byte of s in chars, -1 if none
IndexAny(s, chars) ==
    IF \E i \in 1..Len(s) : s[i] \in chars
    THEN (CHOOSE i \in 1..Len(s) : s[i] \in chars /\ \A j \in 1..(i - 1) : s[j] \notin chars) - 1
    ELSE -1

\* strings.Index(s, c) for a one-byte c
Index(s, c) == IndexAny(s, {c})

\* strings.TrimRight(s, "/")
RECURSIVE TrimRightSlash(_)
TrimRightSlash(s) ==
    IF s # <<>> /\ s[Len(s)] = "/" THEN TrimRightSlash(Upto(s, Len(s) - 1)) ELSE s

\* the length of the longest common prefix of s and p (the ll loops)
RECURSIVE LCP(_, _, _)
LCP(s, p, ll) ==
    IF ll < Len(s) /\ ll < Len(p) /\ At(s, ll) = At(p, ll) THEN LCP(s, p, ll + 1) ELSE ll

(***************************************************************************)
(* walkPath: the calls f(recentlyPassedSlashes, elem, elemIndex) it makes  *)
(* when f never stops the walk, in order.  i is the loop index.            *)
(***************************************************************************)
\* the Go index just past the path element that starts at j
RECURSIVE ElemEnd(_, _)
ElemEnd(path, i) ==
    IF i < Len(path) /\ At(path, i) # "/" THEN ElemEnd(path, i + 1) ELSE i

RECURSIVE walkPathFrom(_, _, _)
walkPathFrom(path, i, recentlyPassedSlashes) ==
    IF i >= Len(path) THEN <<>>
    ELSE IF At(path, i) = "/"
         THEN walkPathFrom(path, i + 1, recentlyPassedSlashes \o <<"/">>)
         ELSE LET e == ElemEnd(path, i)
              IN  <<[slashes |-> recentlyPassedSlashes, elem |-> Slice(path, i, e), elemIndex |-> i]>>
                  \o walkPathFrom(path, e + 1, IF e < Len(path) THEN <<"/">> ELSE recentlyPassedSlashes)

walkPath(path) == walkPathFrom(path, 0, <<>>)

(***************************************************************************)
(* parsePattern.                                                           *)
(***************************************************************************)
\* serveMuxMethodRE: ^[0-9A-Za-z]+$
serveMuxMethodRE(m) == m # <<>> /\ \A i \in 1..Len(m) : m[i] \in Letters \cup Digits

\* serveMuxPathVarNameRE: ^[_\pL][_\pL\p{Nd}]*$
serveMuxPathVarNameRE(n) ==
    /\ n # <<>>
    /\ n[1] \in Letters \cup {"_"}
    /\ \A i \in 2..Len(n) : n[i] \in Letters \cup Digits \cup {"_"}

\* strings.LastIndex(s, c) for a one-byte c
LastIndex(s, c) ==
    IF \E i \in 1..Len(s) : s[i] = c
    THEN (CHOOSE i \in 1..Len(s) : s[i] = c /\ \A j \in (i + 1)..Len(s) : s[j] # c) - 1
    ELSE -1

\* url.Parse("http://" + host + "/") succeeds and gives back the same host:
\* a host made of letters, digits and dots, or an IP literal in brackets
\* (whose text url.Parse does not look into), with an optional ":port".
ValidHost(host) ==
    LET close == LastIndex(host, "]")
        c == IF host[1] = "[" THEN (IF close + 1 < Len(host) THEN close + 1 ELSE -1)
             ELSE Index(host, ":")
        name == IF c >= 0 THEN Upto(host, c) ELSE host
        port == IF c >= 0 THEN From(host, c + 1) ELSE <<>>
    IN  /\ name # <<>>
        /\ IF host[1] = "[" THEN close >= 0 /\ (c >= 0 => host[c + 1] = ":")
           ELSE \A i \in 1..Len(name) : name[i] \in Letters \cup Digits \cup {"."}
        /\ \A i \in 1..Len(port) : port[i] \in Digits

\* The function literal of parsePattern that takes {$} for an unnamed {}
\* element
ParseElemEndAsVar(path, a, w) ==
    LET elem == w.elem
        fc == elem[1]
        lc == elem[Len(elem)]
        d1 == a.denamedPath \o w.slashes
        inner == Slice(elem, 1, Len(elem) - 1)
        mi == IndexAny(inner, {".", "$"})
        varName == IF mi >= 0 THEN Upto(inner, mi) ELSE inner
        varModifier == IF mi >= 0 THEN From(inner, mi) ELSE <<>>
        names1 == Append(a.pathVarNames, varName)
        isNotLastElem == w.elemIndex + Len(elem) < Len(path)
        fail(msg) == [a EXCEPT !.err = msg, !.stop = TRUE]
    IN  IF fc # "{" /\ lc # "}" THEN [a EXCEPT !.denamedPath = d1 \o elem]
        ELSE IF (fc = "{") # (lc = "}") THEN fail("syntax: element neither variable nor literal")
        ELSE IF varName # <<>> /\ ~serveMuxPathVarNameRE(varName) THEN fail("syntax: variable name")
        ELSE IF varName # <<>> /\ \E i \in 1..Len(a.pathVarNames) : a.pathVarNames[i] = varName
             THEN fail("syntax: duplicate variable name")
        ELSE IF varModifier = <<>>
             THEN [a EXCEPT !.denamedPath = d1 \o <<"{", "}">>, !.pathVarNames = names1]
        ELSE IF varModifier = <<".", ".", ".">>
             THEN IF isNotLastElem THEN fail("syntax: ... not last")
                  ELSE [a EXCEPT !.denamedPath = d1 \o <<"{", ".", ".", ".", "}">>, !.pathVarNames = names1]
        ELSE IF varModifier = <<"$">>
             THEN IF isNotLastElem THEN fail("syntax: $ not last")
                  ELSE IF varName # <<>> THEN fail("syntax: $ with a name")
                  ELSE [a EXCEPT !.denamedPath = d1 \o <<"{", "}">>, !.pathVarNames = names1]
        ELSE fail("syntax: modifier")

\* One call of the function literal that parsePattern passes to walkPath.
\* a: the variables the closure captures (denamedPath, pathVarNames), with
\* err (the panic raised, "" if none) and stop (the closure returned false).
ParseElem(path, a, w) ==
    LET elem == w.elem
        fc == elem[1]
        lc == elem[Len(elem)]
        d1 == a.denamedPath \o w.slashes
        inner == Slice(elem, 1, Len(elem) - 1)
        mi == IndexAny(inner, {".", "$"})
        varName == IF mi >= 0 THEN Upto(inner, mi) ELSE inner
        varModifier == IF mi >= 0 THEN From(inner, mi) ELSE <<>>
        names1 == Append(a.pathVarNames, varName)
        isNotLastElem == w.elemIndex + Len(elem) < Len(path)
        fail(msg) == [a EXCEPT !.err = msg, !.stop = TRUE]
    IN  IF fc # "{" /\ lc # "}" THEN [a EXCEPT !.denamedPath = d1 \o elem]
        ELSE IF (fc = "{") # (lc = "}") THEN fail("syntax: element neither variable nor literal")
        ELSE IF varName # <<>> /\ ~serveMuxPathVarNameRE(varName) THEN fail("syntax: variable name")
        ELSE IF varName # <<>> /\ \E i \in 1..Len(a.pathVarNames) : a.pathVarNames[i] = varName
             THEN fail("syntax: duplicate variable name")
        ELSE IF varModifier = <<>>
             THEN [a EXCEPT !.denamedPath = d1 \o <<"{", "}">>, !.pathVarNames = names1]
        ELSE IF varModifier = <<".", ".", ".">>
             THEN IF isNotLastElem THEN fail("syntax: ... not last")
                  ELSE [a EXCEPT !.denamedPath = d1 \o <<"{", ".", ".", ".", "}">>, !.pathVarNames = names1]
        ELSE IF varModifier = <<"$">>
             THEN IF isNotLastElem THEN fail("syntax: $ not last")
                  ELSE IF varName # <<>> THEN fail("syntax: $ with a name")
                  ELSE [a EXCEPT !.denamedPath = d1, !.stop = TRUE]
        ELSE fail("syntax: modifier")

RECURSIVE ParseWalk(_, _, _, _)
ParseWalk(path, ws, k, a) ==
    IF k > Len(ws) \/ a.stop THEN a ELSE ParseWalk(path, ws, k + 1, ParseElem(path, a, ws[k]))

\* parsePattern that panics when the pattern has no path
parsePatternPathRequired(registered, pattern) ==
    LET sp == Index(pattern, " ")
        method == IF sp >= 0 THEN Upto(pattern, sp) ELSE <<>>
        hostpath == IF sp >= 0 THEN From(pattern, sp + 1) ELSE pattern
        sl == Index(hostpath, "/")
        host == IF sl >= 0 THEN Upto(hostpath, sl) ELSE hostpath
        path0 == IF sl >= 0 THEN From(hostpath, sl) ELSE <<>>
        path1 == IF path0 # <<>> /\ path0[Len(path0)] = "/"
                 THEN path0 \o <<"{", ".", ".", ".", "}">> ELSE path0
        a == ParseWalk(path1, walkPath(path1), 1,
                       [denamedPath |-> <<>>, pathVarNames |-> <<>>, err |-> "", stop |-> FALSE])
        path == IF path0 # <<>> THEN a.denamedPath ELSE path0
        key == method \o <<" ">> \o host \o path
        res(e) == [err |-> e, method |-> method, host |-> host, path |-> path,
                   pathVarNames |-> a.pathVarNames, key |-> key]
    IN  IF method # <<>> /\ ~serveMuxMethodRE(method) THEN res("syntax: method")
        ELSE IF path0 = <<>> THEN res("syntax: no path")
        ELSE IF host # <<>> /\ ~ValidHost(host) THEN res("syntax: host")
        ELSE IF a.err # "" THEN res(a.err)
        ELSE IF key \in DOMAIN registered THEN res("conflict")
        ELSE res("")

\* parsePattern that leaves a path that ends with '/' as it is
parsePatternSlashAsIs(registered, pattern) ==
    LET sp == Index(pattern, " ")
        method == IF sp >= 0 THEN Upto(pattern, sp) ELSE <<>>
        hostpath == IF sp >= 0 THEN From(pattern, sp + 1) ELSE pattern
        sl == Index(hostpath, "/")
        host == IF sl >= 0 THEN Upto(hostpath, sl) ELSE hostpath
        path0 == IF sl >= 0 THEN From(hostpath, sl) ELSE <<>>
        a == ParseWalk(path0, walkPath(path0), 1,
                       [denamedPath |-> <<>>, pathVarNames |-> <<>>, err |-> "", stop |-> FALSE])
        path == IF path0 # <<>> THEN a.denamedPath ELSE path0
        key == method \o <<" ">> \o host \o path
        res(e) == [err |-> e, method |-> method, host |-> host, path |-> path,
                   pathVarNames |-> a.pathVarNames, key |-> key]
    IN  IF method # <<>> /\ ~serveMuxMethodRE(method) THEN res("syntax: method")
        ELSE IF hostpath = <<>> THEN res("syntax: no host and no path")
        ELSE IF host # <<>> /\ ~ValidHost(host) THEN res("syntax: host")
        ELSE IF path0 # <<>> /\ a.err # "" THEN res(a.err)
        ELSE IF key \in DOMAIN registered THEN res("conflict")
        ELSE res("")

\* parsePattern that records the pattern as written, the names of its
\* variables included
parsePatternKeepingNames(registered, pattern) ==
    LET sp == Index(pattern, " ")
        method == IF sp >= 0 THEN Upto(pattern, sp) ELSE <<>>
        hostpath == IF sp >= 0 THEN From(pattern, sp + 1) ELSE pattern
        sl == Index(hostpath, "/")
        host == IF sl >= 0 THEN Upto(hostpath, sl) ELSE hostpath
        path0 == IF sl >= 0 THEN From(hostpath, sl) ELSE <<>>
        path1 == IF path0 # <<>> /\ path0[Len(path0)] = "/"
                 THEN path0 \o <<"{", ".", ".", ".", "}">> ELSE path0
        a == ParseWalk(path1, walkPath(path1), 1,
                       [denamedPath |-> <<>>, pathVarNames |-> <<>>, err |-> "", stop |-> FALSE])
        path == IF path0 # <<>> THEN a.denamedPath ELSE path0
        key == method \o <<" ">> \o host \o path1
        res(e) == [err |-> e, method |-> method, host |-> host, path |-> path,
                   pathVarNames |-> a.pathVarNames, key |-> key]
    IN  IF method # <<>> /\ ~serveMuxMethodRE(method) THEN res("syntax: method")
        ELSE IF hostpath = <<>> THEN res("syntax: no host and no path")
        ELSE IF host # <<>> /\ ~ValidHost(host) THEN res("syntax: host")
        ELSE IF path0 # <<>> /\ a.err # "" THEN res(a.err)
        ELSE IF key \in DOMAIN registered THEN res("conflict")
        ELSE res("")

\* parsePattern(pattern) on a multiplexer whose registered-pattern set is
\* registered: [err, method, host, path, pathVarNames, key]; err is the
\* panic raised ("" if none), key the cleaned pattern it records.
parsePattern(registered, pattern) ==
    LET sp == Index(pattern, " ")
        method == IF sp >= 0 THEN Upto(pattern, sp) ELSE <<>>
        hostpath == IF sp >= 0 THEN From(pattern, sp + 1) ELSE pattern
        sl == Index(hostpath, "/")
        host == IF sl >= 0 THEN Upto(hostpath, sl) ELSE hostpath
        path0 == IF sl >= 0 THEN From(hostpath, sl) ELSE <<>>
        path1 == IF path0 # <<>> /\ path0[Len(path0)] = "/"
                 THEN path0 \o <<"{", ".", ".", ".", "}">> ELSE path0
        a == ParseWalk(path1, walkPath(path1), 1,
                       [denamedPath |-> <<>>, pathVarNames |-> <<>>, err |-> "", stop |-> FALSE])
        path == IF path0 # <<>> THEN a.denamedPath ELSE path0
        key == method \o <<" ">> \o host \o path
        res(e) == [err |-> e, method |-> method, host |-> host, path |-> path,
                   pathVarNames |-> a.pathVarNames, key |-> key]
    IN  IF method # <<>> /\ ~serveMuxMethodRE(method) THEN res("syntax: method")
        ELSE IF hostpath = <<>> THEN res("syntax: no host and no path")
        ELSE IF host # <<>> /\ ~ValidHost(host) THEN res("syntax: host")
        ELSE IF path0 # <<>> /\ a.err # "" THEN res(a.err)
        ELSE IF key \in DOMAIN registered THEN res("conflict")
        ELSE res("")

(***************************************************************************)
(* serveMuxNode and handlerTuple.  Nodes live in a heap (a sequence); a    *)
(* pointer to a node is its index, Nil the nil pointer.  A *handlerTuple   *)
(* is <<>> (nil) or <<ht>>.  A Go map is a function; the nil map is the    *)
(* empty function.                                                         *)
(***************************************************************************)
EmptyMap == <<>>

MapPut(m, k, v) == [x \in DOMAIN m \cup {k} |-> IF x = k THEN v ELSE m[x]]

\* &handlerTuple{method, pathVarNames, pattern, handler}
handlerTuple(method, pathVarNames, pattern, handler) ==
    [method |-> method, pathVarNames |-> pathVarNames, pattern |-> pattern, handler |-> handler]

\* the method of the synthesized trailing-slash redirect entry
TsrMethod == <<"_", "t", "s", "r">>

\* &serveMuxNode{prefix, label, typ, parent, nonvarChildren: make([]*serveMuxNode, 255)}
\* nonvarChildren maps the bytes whose slot is not nil to the child in the slot.
serveMuxNode(prefix, label, typ, parent) ==
    [prefix |-> prefix, label |-> label, typ |-> typ, parent |-> parent,
     nonvarChildren |-> EmptyMap, unmodifiedVarChild |-> Nil,
     ellipsisModifiedVarChild |-> Nil, hasAtLeastOneChild |-> FALSE,
     handlerTuples |-> EmptyMap, catchAllHandlerTuple |-> <<>>,
     hasAtLeastOneHandler |-> FALSE]

\* mn.nonvarChildren[c]: "fault" when c is outside the table
InTable(c) == Byte(c) < TableLen
nonvarChild(mn, c) == IF c \in DOMAIN mn.nonvarChildren THEN mn.nonvarChildren[c] ELSE Nil

\* setHandlerTuple that leaves a synthesized redirect in place when a
\* handler for a method is set
setHandlerTupleKeepingTsr(mn, ht) ==
    LET isTsr == ht.method = TsrMethod
        m1 == IF ht.method = <<>> \/ isTsr
              THEN [mn EXCEPT !.catchAllHandlerTuple = <<ht>>]
              ELSE [mn EXCEPT !.handlerTuples = MapPut(mn.handlerTuples, ht.method, ht)]
    IN  IF isTsr /\ mn.hasAtLeastOneHandler THEN mn
        ELSE [m1 EXCEPT !.hasAtLeastOneHandler =
                  DOMAIN m1.handlerTuples # {} \/ m1.catchAllHandlerTuple # <<>>]

\* mn.setHandlerTuple(ht) on the node record mn
setHandlerTuple(mn, ht) ==
    LET isTsr == ht.method = TsrMethod
        m1 == IF ht.method = <<>> \/ isTsr
              THEN [mn EXCEPT !.catchAllHandlerTuple = <<ht>>]
              ELSE [mn EXCEPT !.handlerTuples = MapPut(mn.handlerTuples, ht.method, ht)]
        m2 == IF /\ ~isTsr
                 /\ DOMAIN m1.handlerTuples # {}
                 /\ m1.catchAllHandlerTuple # <<>>
                 /\ m1.catchAllHandlerTuple[1].method = TsrMethod
              THEN [m1 EXCEPT !.catchAllHandlerTuple = <<>>]
              ELSE m1
    IN  IF isTsr /\ mn.hasAtLeastOneHandler THEN mn
        ELSE [m2 EXCEPT !.hasAtLeastOneHandler =
                  DOMAIN m2.handlerTuples # {} \/ m2.catchAllHandlerTuple # <<>>]

\* handlerTupleByMethod without the test of the method: any handler of the node
handlerTupleOfAnyMethod(mn, method) ==
    IF method \in DOMAIN mn.handlerTuples THEN <<mn.handlerTuples[method]>>
    ELSE IF mn.catchAllHandlerTuple # <<>> THEN mn.catchAllHandlerTuple
    ELSE IF DOMAIN mn.handlerTuples # {} THEN <<mn.handlerTuples[CHOOSE k \in DOMAIN mn.handlerTuples : TRUE]>>
    ELSE <<>>

\* handlerTupleByMethod as README "Request Matching" item 8 words it: the
\* method-less handler only when the node has no handler for any method
handlerTupleCatchAllIfAlone(mn, method) ==
    IF method \in DOMAIN mn.handlerTuples THEN <<mn.handlerTuples[method]>>
    ELSE IF DOMAIN mn.handlerTuples = {} THEN mn.catchAllHandlerTuple
    ELSE <<>>

\* handlerTupleByMethod without the method-less handler
handlerTupleOfMethodOnly(mn, method) ==
    IF method \in DOMAIN mn.handlerTuples THEN <<mn.handlerTuples[method]>> ELSE <<>>

\* mn.handlerTupleByMethod(method)
handlerTupleByMethod(mn, method) ==
    IF method \in DOMAIN mn.handlerTuples THEN <<mn.handlerTuples[method]>>
    ELSE mn.catchAllHandlerTuple

\* nodes[mn].addChild(nodes[n]) in the heap h = [nodes, fault]
addChild(h, mn, n) ==
    LET c == h.nodes[n]
    IN  IF h.fault # "" THEN h
        ELSE IF c.typ = nonvarServeMuxNode /\ ~InTable(c.label)
             THEN [h EXCEPT !.fault = "index out of range"]
        ELSE [h EXCEPT !.nodes[mn] =
                 [(CASE c.typ = nonvarServeMuxNode ->
                          [@ EXCEPT !.nonvarChildren = MapPut(@, c.label, n)]
                     [] c.typ = unmodifiedVarServeMuxNode ->
                          [@ EXCEPT !.unmodifiedVarChild = n]
                     [] c.typ = ellipsisModifiedVarServeMuxNode ->
                          [@ EXCEPT !.ellipsisModifiedVarChild = n])
                  EXCEPT !.hasAtLeastOneChild = TRUE]]

\* the node record with ht set when ht is not nil
withHandlerTuple(mn, ht) == IF ht # <<>> THEN setHandlerTuple(mn, ht[1]) ELSE mn

\* The "Split node" branch of insert at the node cn, with LCP length ll.
\* the split of insert that leaves the parent of the children it moves as
\* it was
insertSplitKeepingParents(h, cn, s, ll, nt, ht) ==
    LET old == h.nodes[cn]
        nn == Len(h.nodes) + 1
        moved == [old EXCEPT !.prefix = From(old.prefix, ll), !.label = At(old.prefix, ll),
                             !.parent = cn]
        reset == serveMuxNode(Upto(old.prefix, ll), At(Upto(old.prefix, ll), 0),
                              nonvarServeMuxNode, old.parent)
        nodes1 == [i \in 1..nn |->
                     IF i = nn THEN moved
                     ELSE IF i = cn THEN reset
                     ELSE h.nodes[i]]
        h1 == addChild([h EXCEPT !.nodes = nodes1], cn, nn)
        n2 == Len(h1.nodes) + 1
        child == withHandlerTuple(serveMuxNode(From(s, ll), At(s, ll), nt, cn), ht)
    IN  IF ll = 0 THEN [h EXCEPT !.fault = "index out of range"]
        ELSE IF h1.fault # "" THEN h1
        ELSE IF ll = Len(s)
             THEN [h1 EXCEPT !.nodes[cn] = withHandlerTuple([@ EXCEPT !.typ = nt], ht)]
             ELSE addChild([h1 EXCEPT !.nodes = Append(@, child)], cn, n2)

insertSplit(h, cn, s, ll, nt, ht) ==
    LET old == h.nodes[cn]
        nn == Len(h.nodes) + 1
        moved == [old EXCEPT !.prefix = From(old.prefix, ll), !.label = At(old.prefix, ll),
                             !.parent = cn]
        kids == {moved.nonvarChildren[c] : c \in DOMAIN moved.nonvarChildren}
                  \cup ({moved.unmodifiedVarChild, moved.ellipsisModifiedVarChild} \ {Nil})
        reset == serveMuxNode(Upto(old.prefix, ll), At(Upto(old.prefix, ll), 0),
                              nonvarServeMuxNode, old.parent)
        nodes1 == [i \in 1..nn |->
                     IF i = nn THEN moved
                     ELSE IF i = cn THEN reset
                     ELSE IF i \in kids THEN [h.nodes[i] EXCEPT !.parent = nn]
                     ELSE h.nodes[i]]
        h1 == addChild([h EXCEPT !.nodes = nodes1], cn, nn)
        n2 == Len(h1.nodes) + 1
        child == withHandlerTuple(serveMuxNode(From(s, ll), At(s, ll), nt, cn), ht)
    IN  IF ll = 0 THEN [h EXCEPT !.fault = "index out of range"]
        ELSE IF h1.fault # "" THEN h1
        ELSE IF ll = Len(s)
             THEN [h1 EXCEPT !.nodes[cn] = withHandlerTuple([@ EXCEPT !.typ = nt], ht)]
             ELSE addChild([h1 EXCEPT !.nodes = Append(@, child)], cn, n2)

\* mux.insert(tree, nt, path, ht): the loop, at current node cn with search s
RECURSIVE insertLoop(_, _, _, _, _)
insertLoop(h, cn, s, nt, ht) ==
    LET node == h.nodes[cn]
        sl == Len(s)
        pl == Len(node.prefix)
        ll == LCP(s, node.prefix, 0)
        s1 == From(s, ll)
        nn == IF s1[1] # "{" THEN (IF InTable(s1[1]) THEN nonvarChild(node, s1[1]) ELSE -1)
              ELSE IF Len(s1) > 1 /\ s1[2] = "}" THEN node.unmodifiedVarChild
              ELSE IF Len(s1) > 1 THEN node.ellipsisModifiedVarChild
              ELSE -1
        new == Len(h.nodes) + 1
        child == withHandlerTuple(serveMuxNode(s1, s1[1], nt, cn), ht)
    IN  IF h.fault # "" THEN h
        ELSE IF s = <<>>
             THEN IF ht # <<>>
                  THEN [h EXCEPT !.nodes[cn] = setHandlerTuple([@ EXCEPT !.typ = nt], ht[1])]
                  ELSE h
        ELSE IF ll < pl THEN insertSplit(h, cn, s, ll, nt, ht)
        ELSE IF ll < sl
             THEN IF nn = -1 THEN [h EXCEPT !.fault = "index out of range"]
                  ELSE IF nn # Nil THEN insertLoop(h, nn, s1, nt, ht)
                  ELSE addChild([h EXCEPT !.nodes = Append(@, child)], cn, new)
        ELSE IF ht # <<>> THEN [h EXCEPT !.nodes[cn] = setHandlerTuple(@, ht[1])]
        ELSE h

insert(h, tree, nt, path, ht) == insertLoop(h, tree, path, nt, ht)

(***************************************************************************)
(* ServeMux.Handle.  A multiplexer is the record of the fields of ServeMux *)
(* with the heap of its nodes:                                             *)
(*   nodes, tree, hostTrees, registeredPatterns, maxPathVars,              *)
(*   pathVarValuesPool = [new, items]                                      *)
(* new is the length of the slices the pool's New makes (Nil: the zero     *)
(* sync.Pool, which has no New), items the slices that were Put and that   *)
(* the pool still holds.                                                   *)
(***************************************************************************)
\* new(ServeMux)
NewServeMux ==
    [nodes |-> <<>>, tree |-> Nil, hostTrees |-> EmptyMap, registeredPatterns |-> EmptyMap,
     maxPathVars |-> 0, pathVarValuesPool |-> [new |-> Nil, items |-> <<>>]]

Ellipsis == <<"{", ".", ".", ".", "}">>

\* One call of the function literal that Handle passes to walkPath; a holds
\* the heap h, the registered-pattern set, and stop.
HandleElem(a, w, tree, host, path, pathVarNames, pattern, ht) ==
    LET elem == w.elem
        elemIndex == w.elemIndex
        h1 == insert(a.h, tree, nonvarServeMuxNode, Upto(path, elemIndex), <<>>)
        nodeType == IF elem = Ellipsis THEN ellipsisModifiedVarServeMuxNode
                    ELSE unmodifiedVarServeMuxNode
        nextSlashIndex == elemIndex + Len(elem)
        h2 == insert(h1, tree, nodeType, path, <<ht>>)
        tsrPath == TrimRightSlash(Upto(path, elemIndex - 1))
        method == TsrMethod
        cleanedPattern == method \o <<" ">> \o host \o tsrPath
        tsr == handlerTuple(method, <<>>, pattern, "tsr")
    IN  IF elem[1] # "{" THEN a
        ELSE IF nextSlashIndex < Len(path)
             THEN [a EXCEPT !.h = insert(h1, tree, nodeType, Upto(path, nextSlashIndex), <<>>)]
        ELSE IF /\ tsrPath # <<>>
                /\ nodeType = ellipsisModifiedVarServeMuxNode
                /\ Len(pathVarNames) = 1
                /\ cleanedPattern \notin DOMAIN a.registered
                /\ h2.fault = ""
             THEN [h |-> insert(h2, tree, nonvarServeMuxNode, tsrPath, <<tsr>>),
                   registered |-> MapPut(a.registered, cleanedPattern, pattern),
                   stop |-> TRUE]
        ELSE [a EXCEPT !.h = h2, !.stop = TRUE]

RECURSIVE HandleWalk(_, _, _, _, _, _, _, _, _)
HandleWalk(a, ws, k, tree, host, path, pathVarNames, pattern, ht) ==
    IF k > Len(ws) \/ a.stop \/ a.h.fault # "" THEN a
    ELSE HandleWalk(HandleElem(a, ws[k], tree, host, path, pathVarNames, pattern, ht),
                    ws, k + 1, tree, host, path, pathVarNames, pattern, ht)

\* The result of Handle, [mux, err]: the multiplexer after the call and the
\* panic the call raised ("" if it returned).  h3 is the heap after the last
\* insert, registered the registered patterns after the walk.
\* the return of Handle that makes the pool once, for the first pattern
\* with variables
HandleDoneKeepingPool(m0, p, newTree, tree, registered, h3) ==
    [mux |-> [nodes |-> h3.nodes,
              tree |-> m0.tree,
              hostTrees |-> IF newTree THEN MapPut(m0.hostTrees, p.host, tree) ELSE m0.hostTrees,
              registeredPatterns |-> registered,
              maxPathVars |-> IF m0.maxPathVars < Len(p.pathVarNames) THEN Len(p.pathVarNames)
                              ELSE m0.maxPathVars,
              pathVarValuesPool |-> IF m0.maxPathVars < Len(p.pathVarNames) /\ m0.pathVarValuesPool.new = Nil
                                    THEN [new |-> Len(p.pathVarNames), items |-> <<>>]
                                    ELSE m0.pathVarValuesPool],
     err |-> h3.fault]

HandleDone(m0, p, newTree, tree, registered, h3) ==
    [mux |-> [nodes |-> h3.nodes,
              tree |-> m0.tree,
              hostTrees |-> IF newTree THEN MapPut(m0.hostTrees, p.host, tree) ELSE m0.hostTrees,
              registeredPatterns |-> registered,
              maxPathVars |-> IF m0.maxPathVars < Len(p.pathVarNames) THEN Len(p.pathVarNames)
                              ELSE m0.maxPathVars,
              pathVarValuesPool |-> IF m0.maxPathVars < Len(p.pathVarNames)
                                    THEN [new |-> Len(p.pathVarNames), items |-> <<>>]
                                    ELSE m0.pathVarValuesPool],
     err |-> h3.fault]

\* mux.insert(tree, nonvarServeMuxNode, path, ht), after the walk that left a
HandleInserted(m0, p, newTree, tree, ht, a) ==
    HandleDone(m0, p, newTree, tree, a.registered,
               insert(a.h, tree, nonvarServeMuxNode, p.path, <<ht>>))

\* Handle from the return of parsePattern, p, on
HandleParsed(m0, pattern, handler, p) ==
    LET reg1 == MapPut(m0.registeredPatterns, p.key, pattern)
        newTree == p.host # <<>> /\ p.host \notin DOMAIN m0.hostTrees
        nodes1 == IF newTree
                  THEN Append(m0.nodes, serveMuxNode(<<>>, "", nonvarServeMuxNode, Nil))
                  ELSE m0.nodes
        tree == IF p.host = <<>> THEN m0.tree
                ELSE IF newTree THEN Len(m0.nodes) + 1 ELSE m0.hostTrees[p.host]
        ht == handlerTuple(p.method, p.pathVarNames, pattern, handler)
    IN  IF p.err # "" THEN [mux |-> m0, err |-> p.err]
        ELSE HandleInserted(m0, p, newTree, tree, ht,
                 HandleWalk([h |-> [nodes |-> nodes1, fault |-> ""], registered |-> reg1, stop |-> FALSE],
                            walkPath(p.path), 1, tree, p.host, p.path, p.pathVarNames, pattern, ht))

\* Handle on the multiplexer m0 whose host-less tree exists
HandleTree(m0, pattern, handler) ==
    HandleParsed(m0, pattern, handler, parsePattern(m0.registeredPatterns, pattern))

\* mux.Handle(pattern, handler): [mux, err]
Handle(mux, pattern, handler) ==
    IF pattern = <<>> THEN [mux |-> mux, err |-> "empty pattern"]
    ELSE IF handler = NilHandler THEN [mux |-> mux, err |-> "nil handler"]
    ELSE IF mux.tree = Nil
         THEN HandleTree([mux EXCEPT !.nodes = Append(@, serveMuxNode(<<>>, "", nonvarServeMuxNode, Nil)),
                                     !.tree = Len(mux.nodes) + 1],
                         pattern, handler)
    ELSE HandleTree(mux, pattern, handler)

\* mux.HandleFunc(pattern, handler): [mux, err]
HandleFunc(mux, pattern, handler) ==
    IF handler = NilHandler THEN [mux |-> mux, err |-> "nil handler"]
    ELSE Handle(mux, pattern, handler)

(***************************************************************************)
(* sync.Pool as pathVarValuesPool uses it.  A slice that was Put keeps the *)
(* values an earlier search wrote into it; the model keeps that a cell     *)
(* holds such a left-over value (Stale), not which value it is, and a      *)
(* search records every read of such a cell (readStale).                   *)
(***************************************************************************)
Stale == <<"stale">>

\* what Get returns: a slice the pool holds, else what New makes, else the
\* nil interface (<<>>); slices are returned as <<slice>>
poolGet(pool) ==
    IF pool.items # <<>> THEN <<Head(pool.items)>>
    ELSE IF pool.new # Nil THEN <<[i \in 1..pool.new |-> <<>>]>>
    ELSE <<>>

\* a Get that leaves in the pool the slice it returns
poolKeepingSlice(pool) == pool

\* the pool after that Get
poolAfterGet(pool) ==
    IF pool.items # <<>> THEN [pool EXCEPT !.items = Tail(@)]
    ELSE pool

poolPut(pool, b) == [pool EXCEPT !.items = Append(@, [i \in 1..Len(b) |-> Stale])]

(***************************************************************************)
(* ServeMux.match, one jump target at a time.  The state m of a search:    *)
(*   pc      the label the search is at: "OuterLoop",                      *)
(*           "TryUnmodifiedVarNode", "TryEllipsisModifiedVarNode",         *)
(*           "BacktrackToPreviousNode", "End" (after the loop), or "panic" *)
(*   s, si, cn, sn, fnt, pvi, pvvs, ht   the variables of match            *)
(*   pool    mux.pathVarValuesPool                                         *)
(*   readStale  the search read a cell of pvvs it had not written          *)
(*   gets    the number of calls of pathVarValuesPool.Get it made          *)
(* pvvs is <<>> (nil) or <<slice>>.                                        *)
(***************************************************************************)
matchInit(tree, path, pool) ==
    [pc |-> "OuterLoop", s |-> path, si |-> 0, cn |-> tree, sn |-> Nil,
     fnt |-> nonvarServeMuxNode, pvi |-> 0, pvvs |-> <<>>, ht |-> <<>>, pool |-> pool,
     readStale |-> FALSE, gets |-> 0]

panicked(m) == [m EXCEPT !.pc = "panic"]

\* if pvvs == nil { pvvs = mux.pathVarValuesPool.Get().([]string) }; pvvs[pvi] = v; pvi++
recordValue(m, v) ==
    LET got == IF m.pvvs = <<>> THEN poolGet(m.pool) ELSE m.pvvs
        pool1 == IF m.pvvs = <<>> THEN poolAfterGet(m.pool) ELSE m.pool
        gets1 == IF m.pvvs = <<>> THEN m.gets + 1 ELSE m.gets
    IN  IF got = <<>> THEN panicked([m EXCEPT !.gets = gets1])
        ELSE IF m.pvi < 0 \/ m.pvi >= Len(got[1])
             THEN panicked([m EXCEPT !.pvvs = got, !.pool = pool1, !.gets = gets1])
        ELSE [m EXCEPT !.pvvs = <<[got[1] EXCEPT ![m.pvi + 1] = v]>>, !.pvi = @ + 1, !.pool = pool1,
                       !.gets = gets1]

\* the length of the run of bytes of s before the first '/'
segLen(s) == LET i == Index(s, "/") IN IF i >= 0 THEN i ELSE Len(s)

\* atOuterLoop without the saved node
atOuterLoopNotSaving(nodes, method, m) ==
    LET cn == nodes[m.cn]
        isStatic == cn.typ = nonvarServeMuxNode
        ll == LCP(m.s, cn.prefix, 0)
        s1 == IF isStatic THEN From(m.s, ll) ELSE m.s
        si1 == IF isStatic THEN m.si + ll ELSE m.si
        atEnd == s1 = <<>> /\ cn.hasAtLeastOneHandler
        ht1 == IF atEnd THEN handlerTupleByMethod(cn, method) ELSE m.ht
        m1 == [m EXCEPT !.s = s1, !.si = si1, !.ht = ht1]
    IN  IF isStatic /\ ll # Len(cn.prefix)
        THEN [m EXCEPT !.fnt = nonvarServeMuxNode, !.pc = "BacktrackToPreviousNode"]
        ELSE IF atEnd /\ ht1 # <<>> THEN [m1 EXCEPT !.pc = "End"]
        ELSE IF s1 # <<>> /\ ~InTable(s1[1]) THEN panicked(m1)
        ELSE IF s1 # <<>> /\ nonvarChild(cn, s1[1]) # Nil
             THEN [m1 EXCEPT !.cn = nonvarChild(cn, s1[1])]
        ELSE [m1 EXCEPT !.pc = "TryUnmodifiedVarNode"]

\* if cn.typ == nonvarServeMuxNode { ... } up to "Try unmodified variable node"
atOuterLoop(nodes, method, m) ==
    LET cn == nodes[m.cn]
        isStatic == cn.typ = nonvarServeMuxNode
        ll == LCP(m.s, cn.prefix, 0)
        s1 == IF isStatic THEN From(m.s, ll) ELSE m.s
        si1 == IF isStatic THEN m.si + ll ELSE m.si
        atEnd == s1 = <<>> /\ cn.hasAtLeastOneHandler
        sn1 == IF atEnd /\ m.sn = Nil THEN m.cn ELSE m.sn
        ht1 == IF atEnd THEN handlerTupleByMethod(cn, method) ELSE m.ht
        m1 == [m EXCEPT !.s = s1, !.si = si1, !.sn = sn1, !.ht = ht1]
    IN  IF isStatic /\ ll # Len(cn.prefix)
        THEN [m EXCEPT !.fnt = nonvarServeMuxNode, !.pc = "BacktrackToPreviousNode"]
        ELSE IF atEnd /\ ht1 # <<>> THEN [m1 EXCEPT !.pc = "End"]
        ELSE IF s1 # <<>> /\ ~InTable(s1[1]) THEN panicked(m1)
        ELSE IF s1 # <<>> /\ nonvarChild(cn, s1[1]) # Nil
             THEN [m1 EXCEPT !.cn = nonvarChild(cn, s1[1])]
        ELSE [m1 EXCEPT !.pc = "TryUnmodifiedVarNode"]

atTryUnmodifiedVarNode(nodes, m) ==
    LET cn == nodes[m.cn]
        i == segLen(m.s)
        m1 == recordValue([m EXCEPT !.cn = cn.unmodifiedVarChild], Upto(m.s, i))
    IN  IF cn.unmodifiedVarChild = Nil THEN [m EXCEPT !.pc = "TryEllipsisModifiedVarNode"]
        ELSE IF m1.pc = "panic" THEN m1
        ELSE [m1 EXCEPT !.s = From(m.s, i), !.si = @ + i, !.pc = "OuterLoop"]

atTryEllipsisModifiedVarNode(nodes, method, m) ==
    LET cn == nodes[m.cn]
        child == cn.ellipsisModifiedVarChild
        m1 == recordValue([m EXCEPT !.cn = child], m.s)
        ht1 == handlerTupleByMethod(nodes[child], method)
        m2 == [m1 EXCEPT !.si = @ + Len(m.s), !.s = <<>>,
                         !.sn = IF @ = Nil THEN child ELSE @, !.ht = ht1]
    IN  IF child = Nil
        THEN [m EXCEPT !.fnt = ellipsisModifiedVarServeMuxNode, !.pc = "BacktrackToPreviousNode"]
        ELSE IF m1.pc = "panic" THEN m1
        ELSE IF ht1 # <<>> THEN [m2 EXCEPT !.pc = "End"]
        ELSE [m2 EXCEPT !.fnt = ellipsisModifiedVarServeMuxNode, !.pc = "BacktrackToPreviousNode"]

\* the backtracking step that leaves the variable index as it is
atBacktrackKeepingIndex(nodes, path, m) ==
    LET cn == nodes[m.cn]
        undo == m.fnt # nonvarServeMuxNode
        isStatic == cn.typ = nonvarServeMuxNode
        pvi1 == IF undo /\ ~isStatic THEN m.pvi - 1 ELSE m.pvi
        badIndex == undo /\ ~isStatic /\ (m.pvvs = <<>> \/ pvi1 < 0 \/ pvi1 >= Len(m.pvvs[1]))
        si1 == IF ~undo THEN m.si
               ELSE IF isStatic THEN m.si - Len(cn.prefix)
               ELSE m.si - Len(m.pvvs[1][pvi1 + 1])
        badSlice == undo /\ (si1 < 0 \/ si1 > Len(path))
        s1 == IF undo THEN From(path, si1) ELSE m.s
        nnt == IF cn.typ < ellipsisModifiedVarServeMuxNode THEN cn.typ + 1 ELSE nonvarServeMuxNode
        m1 == [m EXCEPT !.si = si1, !.s = s1, !.cn = cn.parent,
                        !.readStale = @ \/ (undo /\ ~isStatic /\ m.pvvs[1][pvi1 + 1] = Stale)]
    IN  IF badIndex THEN panicked(m)
        ELSE IF badSlice THEN panicked(m)
        ELSE IF cn.parent # Nil /\ nnt = unmodifiedVarServeMuxNode
             THEN [m1 EXCEPT !.pc = "TryUnmodifiedVarNode"]
        ELSE IF cn.parent # Nil /\ nnt = ellipsisModifiedVarServeMuxNode
             THEN [m1 EXCEPT !.pc = "TryEllipsisModifiedVarNode"]
        ELSE IF cn.parent = Nil /\ m.fnt = nonvarServeMuxNode
             THEN [m1 EXCEPT !.sn = Nil, !.pc = "End"]
        ELSE [m1 EXCEPT !.pc = "End"]

atBacktrackToPreviousNode(nodes, path, m) ==
    LET cn == nodes[m.cn]
        undo == m.fnt # nonvarServeMuxNode
        isStatic == cn.typ = nonvarServeMuxNode
        pvi1 == IF undo /\ ~isStatic THEN m.pvi - 1 ELSE m.pvi
        badIndex == undo /\ ~isStatic /\ (m.pvvs = <<>> \/ pvi1 < 0 \/ pvi1 >= Len(m.pvvs[1]))
        si1 == IF ~undo THEN m.si
               ELSE IF isStatic THEN m.si - Len(cn.prefix)
               ELSE m.si - Len(m.pvvs[1][pvi1 + 1])
        badSlice == undo /\ (si1 < 0 \/ si1 > Len(path))
        s1 == IF undo THEN From(path, si1) ELSE m.s
        nnt == IF cn.typ < ellipsisModifiedVarServeMuxNode THEN cn.typ + 1 ELSE nonvarServeMuxNode
        m1 == [m EXCEPT !.pvi = pvi1, !.si = si1, !.s = s1, !.cn = cn.parent,
                        !.readStale = @ \/ (undo /\ ~isStatic /\ m.pvvs[1][pvi1 + 1] = Stale)]
    IN  IF badIndex THEN panicked(m)
        ELSE IF badSlice THEN panicked(m)
        ELSE IF cn.parent # Nil /\ nnt = unmodifiedVarServeMuxNode
             THEN [m1 EXCEPT !.pc = "TryUnmodifiedVarNode"]
        ELSE IF cn.parent # Nil /\ nnt = ellipsisModifiedVarServeMuxNode
             THEN [m1 EXCEPT !.pc = "TryEllipsisModifiedVarNode"]
        ELSE IF cn.parent = Nil /\ m.fnt = nonvarServeMuxNode
             THEN [m1 EXCEPT !.sn = Nil, !.pc = "End"]
        ELSE [m1 EXCEPT !.pc = "End"]

\* one jump of the search loop
matchStep(nodes, path, method, m) ==
    CASE m.pc = "OuterLoop" -> atOuterLoop(nodes, method, m)
      [] m.pc = "TryUnmodifiedVarNode" -> atTryUnmodifiedVarNode(nodes, m)
      [] m.pc = "TryEllipsisModifiedVarNode" -> atTryEllipsisModifiedVarNode(nodes, method, m)
      [] m.pc = "BacktrackToPreviousNode" -> atBacktrackToPreviousNode(nodes, path, m)

\* the search loop, run until it leaves the loop or panics
RECURSIVE matchLoop(_, _, _, _)
matchLoop(nodes, path, method, m) ==
    IF m.pc \in {"End", "panic"} THEN m ELSE matchLoop(nodes, path, method, matchStep(nodes, path, method, m))

\* the loop that publishes, without the test pvn != ""
publishUnnamedToo(pathVars, names, pvvs, k) ==
    LET ks == k..Len(names)
    IN  [nm \in DOMAIN pathVars \cup {names[i] : i \in ks} |->
            IF \E i \in ks : names[i] = nm
            THEN pvvs[CHOOSE i \in ks : names[i] = nm /\ \A j \in ks : names[j] = nm => j <= i]
            ELSE pathVars[nm]]

\* pathVars[pvn] = pvvs[pvi] for the named variables of ht
RECURSIVE publish(_, _, _, _)
publish(pathVars, names, pvvs, k) ==
    IF k > Len(names) THEN pathVars
    ELSE publish(IF names[k] # <<>> THEN MapPut(pathVars, names[k], pvvs[k]) ELSE pathVars,
                 names, pvvs, k + 1)

\* matchEnd that keeps the slice when the search found no handler
matchEndKeepingSlice(nodes, pathVars, m) ==
    LET res(h, pattern, vars, pool1, panic, puts) ==
            [h |-> h, pattern |-> pattern, pathVars |-> vars, pool |-> pool1, panic |-> panic,
             m |-> [pc |-> m.pc, s |-> m.s, si |-> m.si, cn |-> m.cn, sn |-> m.sn, pvi |-> m.pvi,
                    pvvs |-> m.pvvs, readStale |-> m.readStale, gets |-> m.gets, puts |-> puts]]
        ht == m.ht[1]
        names == ht.pathVarNames
    IN  IF m.pc = "panic" THEN res(NilHandler, <<>>, pathVars, m.pool, TRUE, 0)
        ELSE IF m.cn = Nil \/ m.ht = <<>>
             THEN IF m.sn # Nil /\ nodes[m.sn].hasAtLeastOneHandler
                  THEN res("methodNotAllowed", <<>>, pathVars, m.pool, FALSE, 0)
                  ELSE res(NilHandler, <<>>, pathVars, m.pool, FALSE, 0)
        ELSE IF Len(names) > 0
             THEN res(ht.handler, ht.pattern,
                      IF pathVars # <<>> THEN <<publish(pathVars[1], names, m.pvvs[1], 1)>>
                      ELSE pathVars,
                      poolPut(m.pool, IF m.pvvs # <<>> THEN m.pvvs[1] ELSE <<>>), FALSE, 1)
        ELSE res(ht.handler, ht.pattern, pathVars, m.pool, FALSE, 0)

\* What match does after the loop, left in the state m:
\* [h, pattern, pathVars, pool, panic, m]; h is NilHandler for (nil, "");
\* the m of the result is m without its pool, with puts, the number of
\* calls of pathVarValuesPool.Put.
matchEnd(nodes, pathVars, m) ==
    LET res(h, pattern, vars, pool1, panic, puts) ==
            [h |-> h, pattern |-> pattern, pathVars |-> vars, pool |-> pool1, panic |-> panic,
             m |-> [pc |-> m.pc, s |-> m.s, si |-> m.si, cn |-> m.cn, sn |-> m.sn, pvi |-> m.pvi,
                    pvvs |-> m.pvvs, readStale |-> m.readStale, gets |-> m.gets, puts |-> puts]]
        poolF == IF m.pvvs # <<>> THEN poolPut(m.pool, m.pvvs[1]) ELSE m.pool
        putsF == IF m.pvvs # <<>> THEN 1 ELSE 0
        ht == m.ht[1]
        names == ht.pathVarNames
        short == \E k \in 1..Len(names) : names[k] # <<>> /\ (m.pvvs = <<>> \/ k > Len(m.pvvs[1]))
    IN  IF m.pc = "panic" THEN res(NilHandler, <<>>, pathVars, m.pool, TRUE, 0)
        ELSE IF m.cn = Nil \/ m.ht = <<>>
             THEN IF m.sn # Nil /\ nodes[m.sn].hasAtLeastOneHandler
                  THEN res("methodNotAllowed", <<>>, pathVars, poolF, FALSE, putsF)
                  ELSE res(NilHandler, <<>>, pathVars, poolF, FALSE, putsF)
        ELSE IF Len(names) > 0
             THEN IF pathVars # <<>> /\ short THEN res(NilHandler, <<>>, pathVars, m.pool, TRUE, 0)
                  ELSE res(ht.handler, ht.pattern,
                           IF pathVars # <<>> THEN <<publish(pathVars[1], names, m.pvvs[1], 1)>>
                           ELSE pathVars,
                           poolPut(m.pool, IF m.pvvs # <<>> THEN m.pvvs[1] ELSE <<>>), FALSE, 1)
        ELSE res(ht.handler, ht.pattern, pathVars, m.pool, FALSE, 0)

\* mux.match(tree, path, r) where r has the method and the variable store
\* pathVars (<<>>: r has none, else <<map>>)
match(nodes, pool, tree, path, method, pathVars) ==
    matchEnd(nodes, pathVars, matchLoop(nodes, path, method, matchInit(tree, path, pool)))

(***************************************************************************)
(* cleanPath and stripHostPort.                                            *)
(***************************************************************************)
\* path.Clean of a rooted path, given its non-empty elements ws: the
\* elements that remain ("." dropped, ".." dropping its predecessor)
RECURSIVE CleanElems(_, _, _)
CleanElems(ws, k, stack) ==
    IF k > Len(ws) THEN stack
    ELSE LET e == ws[k].elem
         IN  CleanElems(ws, k + 1,
                        IF e = <<".">> THEN stack
                        ELSE IF e = <<".", ".">> THEN (IF stack = <<>> THEN stack ELSE Upto(stack, Len(stack) - 1))
                        ELSE Append(stack, e))

RECURSIVE JoinRooted(_, _)
JoinRooted(stack, k) ==
    IF k > Len(stack) THEN <<>> ELSE <<"/">> \o stack[k] \o JoinRooted(stack, k + 1)

pathClean(p) ==
    LET stack == CleanElems(walkPath(p), 1, <<>>)
    IN  IF stack = <<>> THEN <<"/">> ELSE JoinRooted(stack, 1)

cleanPath(p0) ==
    LET p == IF p0[1] # "/" THEN <<"/">> \o p0 ELSE p0
        np == pathClean(p)
    IN  IF p0 = <<>> THEN <<"/">>
        ELSE IF p[Len(p)] = "/" /\ np # <<"/">> THEN np \o <<"/">>
        ELSE np

\* net.SplitHostPort(hostport): [err, host]; err is TRUE when it returns an
\* error (missing port, too many colons, missing or unexpected bracket)
SplitHostPort(hostport) ==
    LET i == LastIndex(hostport, ":")
        end == Index(hostport, "]")
        ok(host) == [err |-> FALSE, host |-> host]
        bad == [err |-> TRUE, host |-> <<>>]
    IN  IF i < 0 THEN bad
        ELSE IF hostport[1] = "["
             THEN IF end < 0 \/ end + 1 # i THEN bad
                  ELSE IF Index(From(hostport, 1), "[") >= 0 THEN bad
                  ELSE IF Index(From(hostport, end + 1), "]") >= 0 THEN bad
                  ELSE ok(Slice(hostport, 1, end))
        ELSE IF Index(Upto(hostport, i), ":") >= 0 THEN bad
        ELSE IF Index(hostport, "[") >= 0 \/ Index(hostport, "]") >= 0 THEN bad
        ELSE ok(Upto(hostport, i))

\* stripHostPort(h)
stripHostPort(h) ==
    IF Index(h, ":") < 0 THEN h
    ELSE IF SplitHostPort(h).err THEN h
    ELSE SplitHostPort(h).host

(***************************************************************************)
(* ServeMux.Handler, ServeMux.handler and ServeMux.ServeHTTP.  A request r *)
(* is [method, host, path, rawQuery].                                      *)
(***************************************************************************)
\* http.MethodConnect; methods are abbreviated to one letter (G, P, C).
MethodConnect == <<"C">>

\* what handler has in hand before any tree was searched
noSearch(path, pathVars, pool) ==
    [h |-> NilHandler, pattern |-> <<>>, pathVars |-> pathVars, pool |-> pool, panic |-> FALSE,
     m |-> [pc |-> "End", s |-> path, si |-> 0, cn |-> Nil, sn |-> Nil, pvi |-> 0,
            pvvs |-> <<>>, readStale |-> FALSE, gets |-> 0, puts |-> 0]]

\* return mux.notFoundHandler(), "" unless the last search, r2, found a handler
handlerReturn(r2) ==
    IF r2.panic \/ r2.h # NilHandler THEN r2 ELSE [r2 EXCEPT !.h = "notFound"]

\* if mux.tree != nil { ... }, after prev (the search of the host's tree, or none)
handlerHostless(mux, path, r, prev) ==
    handlerReturn(IF mux.tree # Nil
                  THEN match(mux.nodes, prev.pool, mux.tree, path, r.method, prev.pathVars)
                  ELSE prev)

\* if h, pattern = mux.match(tree, path, r); h != nil { return }, r1 the search
\* of the host's tree
handlerViaHost(mux, path, r, r1) ==
    IF r1.panic \/ r1.h # NilHandler THEN r1 ELSE handlerHostless(mux, path, r, r1)

\* mux.handler(path, r) with the variable store pathVars of r:
\* [h, pattern, pathVars, pool, panic, m]
handler(mux, path, r, pathVars) ==
    LET key == IF r.method # MethodConnect THEN stripHostPort(r.host) ELSE r.host
    IN  IF DOMAIN mux.hostTrees # {} /\ key \in DOMAIN mux.hostTrees
        THEN handlerViaHost(mux, path, r,
                 match(mux.nodes, mux.pathVarValuesPool, mux.hostTrees[key], path, r.method, pathVars))
        ELSE handlerHostless(mux, path, r, noSearch(path, pathVars, mux.pathVarValuesPool))

\* what Handler returns when mux.handler(path, r) returned res: with
\* location, the target of the redirect handler it returns when the path is
\* not canonical (<<>> otherwise)
HandlerReturn(r, path, res) ==
    [h |-> IF ~res.panic /\ path # r.path THEN "redirect" ELSE res.h,
     pattern |-> res.pattern, pathVars |-> res.pathVars, pool |-> res.pool,
     panic |-> res.panic, m |-> res.m,
     location |-> IF ~res.panic /\ path # r.path
                  THEN <<[path |-> path, rawQuery |-> r.rawQuery]>> ELSE <<>>]

\* Handler with the path it searches
HandlerAt(mux, r, pathVars, path) == HandlerReturn(r, path, handler(mux, path, r, pathVars))

\* Handler that cleans the path of every request, CONNECT included
HandlerCleaningConnect(mux, r, pathVars) == HandlerAt(mux, r, pathVars, cleanPath(r.path))

\* mux.Handler(r)
Handler(mux, r, pathVars) ==
    HandlerAt(mux, r, pathVars, IF r.method # MethodConnect THEN cleanPath(r.path) ELSE r.path)

\* h.ServeHTTP(w, r) whose synthesized redirect drops the query of the request
ServeDroppingQuery(r, res) ==
    LET status == CASE res.panic -> 0
                    [] res.h \in {"redirect", "tsr"} -> StatusMovedPermanently
                    [] res.h = "notFound" -> StatusNotFound
                    [] res.h = "methodNotAllowed" -> StatusMethodNotAllowed
                    [] OTHER -> 0
        location == CASE res.panic -> <<>>
                      [] res.h = "tsr" -> <<[path |-> r.path \o <<"/">>, rawQuery |-> <<>>]>>
                      [] OTHER -> res.location
    IN  [ret |-> [op |-> "ServeHTTP", r |-> r, h |-> res.h, pattern |-> res.pattern,
                  pathVars |-> res.pathVars[1], status |-> status, location |-> location,
                  panic |-> res.panic, m |-> res.m],
         pool |-> res.pool]

\* h.ServeHTTP(w, r) for what Handler returned, res: [ret, pool], where ret
\* is res with the response that h writes: status (0: whatever the
\* registered handler writes) and the Location header.
Serve(r, res) ==
    LET status == CASE res.panic -> 0
                    [] res.h \in {"redirect", "tsr"} -> StatusMovedPermanently
                    [] res.h = "notFound" -> StatusNotFound
                    [] res.h = "methodNotAllowed" -> StatusMethodNotAllowed
                    [] OTHER -> 0
        location == CASE res.panic -> <<>>
                      [] res.h = "tsr" -> <<[path |-> r.path \o <<"/">>, rawQuery |-> r.rawQuery]>>
                      [] OTHER -> res.location
    IN  [ret |-> [op |-> "ServeHTTP", r |-> r, h |-> res.h, pattern |-> res.pattern,
                  pathVars |-> res.pathVars[1], status |-> status, location |-> location,
                  panic |-> res.panic, m |-> res.m],
         pool |-> res.pool]

\* mux.ServeHTTP(w, r) for a request whose RequestURI is not "*" and that
\* carries no variable store yet
ServeHTTP(mux, r) == Serve(r, Handler(mux, r, <<EmptyMap>>))

(***************************************************************************)
(* The state machine.  One ServeMux, used by a caller that registers       *)
(* patterns and serves requests, one call at a time; a call that panics is *)
(* recovered by the caller.                                                *)
(***************************************************************************)
VARIABLES
    nodes,              \* the heap of serveMuxNode
    tree,               \* mux.tree
    hostTrees,          \* mux.hostTrees
    registeredPatterns, \* mux.registeredPatterns
    maxPathVars,        \* mux.maxPathVars
    pathVarValuesPool,  \* mux.pathVarValuesPool
    handled,            \* the Handle calls that returned: <<[pattern, handler], ...>>
    ret,                \* what the call in progress is about to return; [op |-> "none"] between calls
    conc                \* mux.mu and the goroutines that use the mux concurrently

vars == <<nodes, tree, hostTrees, registeredPatterns, maxPathVars, pathVarValuesPool, handled, ret, conc>>

muxVars == <<nodes, tree, hostTrees, registeredPatterns, maxPathVars, pathVarValuesPool>>

\* the ServeMux in the current state
Mux ==
    [nodes |-> nodes, tree |-> tree, hostTrees |-> hostTrees,
     registeredPatterns |-> registeredPatterns, maxPathVars |-> maxPathVars,
     pathVarValuesPool |-> pathVarValuesPool]

SetMux(mux) ==
    /\ nodes' = mux.nodes
    /\ tree' = mux.tree
    /\ hostTrees' = mux.hostTrees
    /\ registeredPatterns' = mux.registeredPatterns
    /\ maxPathVars' = mux.maxPathVars
    /\ pathVarValuesPool' = mux.pathVarValuesPool

Idle == [op |-> "none"]

\* the mux without the slices its pool holds
SansItems(mux) == [mux EXCEPT !.pathVarValuesPool.items = <<>>]

\* the goroutines that call Handler concurrently
Readers == {1, 2}

\* a goroutine that is in no call
Resting ==
    [pc |-> "idle", pattern |-> <<>>, handler |-> NilHandler, err |-> "", p |-> <<>>, t |-> Nil,
     k |-> 0, stop |-> FALSE]

RestingReader ==
    [pc |-> "idle", r |-> <<>>, path |-> <<>>, seen |-> <<>>, stage |-> "", m |-> <<>>, buf |-> 0,
     res |-> <<>>]

\* the backing arrays a pool's New can have made while Readers search
BufIds == 1..(Cardinality(Readers) + 1)

\* conc: mu, the sync.RWMutex (writer: Lock is held; readers: the number
\* of RLock holders); w, the goroutine that registers; rd, the goroutines
\* that look up (buf: the backing array of the slice the search holds, 0
\* for none); committed, the mux as the last Unlock of Handle left it;
\* ids, the backing arrays of the slices the pool holds, in the order of
\* its items; heap, the cells of every backing array.  mu.pending: a call of
\* Lock waits for the readers to leave, and RLock blocks meanwhile.
ConcInit ==
    [mu |-> [writer |-> FALSE, pending |-> FALSE, readers |-> 0], w |-> Resting,
     rd |-> [i \in Readers |-> RestingReader], committed |-> SansItems(NewServeMux), ids |-> <<>>,
     heap |-> [b \in BufIds |-> <<>>]]

\* NewServeMux()
Init ==
    /\ nodes = NewServeMux.nodes
    /\ tree = NewServeMux.tree
    /\ hostTrees = NewServeMux.hostTrees
    /\ registeredPatterns = NewServeMux.registeredPatterns
    /\ maxPathVars = NewServeMux.maxPathVars
    /\ pathVarValuesPool = NewServeMux.pathVarValuesPool
    /\ handled = <<>>
    /\ ret = Idle
    /\ conc = ConcInit

\* Handle returns res
HandleReturns(pattern, h, res) ==
    /\ SetMux(res.mux)
    /\ handled' = IF res.err = "" THEN Append(handled, [pattern |-> pattern, handler |-> h])
                  ELSE handled
    /\ ret' = [op |-> "Handle", pattern |-> pattern, handler |-> h, err |-> res.err]
    /\ UNCHANGED conc

\* mux.Handle(pattern, h)
HandleCall(pattern, h) ==
    /\ ret = Idle
    /\ Len(handled) < MaxHandles
    /\ HandleReturns(pattern, h, Handle(Mux, pattern, h))

\* mux.HandleFunc(pattern, h)
HandleFuncCall(pattern, h) ==
    /\ ret = Idle
    /\ Len(handled) < MaxHandles
    /\ HandleReturns(pattern, h, HandleFunc(Mux, pattern, h))

\* ServeHTTP returns res
ServeReturns(res) ==
    /\ pathVarValuesPool' = res.pool
    /\ ret' = res.ret
    /\ UNCHANGED <<nodes, tree, hostTrees, registeredPatterns, maxPathVars, handled, conc>>

\* mux.ServeHTTP(w, r)
ServeCall(method, host, path, rawQuery) ==
    /\ ret = Idle
    /\ ServeReturns(ServeHTTP(Mux, [method |-> method, host |-> host, path |-> path, rawQuery |-> rawQuery]))

\* the call returns (or its panic is recovered)
Return ==
    /\ ret # Idle
    /\ ret' = Idle
    /\ UNCHANGED <<muxVars, handled, conc>>

\* the garbage collector empties the pool
PoolGC ==
    /\ ret = Idle
    /\ pathVarValuesPool.items # <<>>
    /\ pathVarValuesPool' = [pathVarValuesPool EXCEPT !.items = <<>>]
    /\ UNCHANGED <<nodes, tree, hostTrees, registeredPatterns, maxPathVars, handled, ret, conc>>

(***************************************************************************)
(* The search of match, one jump of its loop at a time: ret holds the      *)
(* local variables of the search in progress.                              *)
(***************************************************************************)
\* mux.match(mux.tree, path, r) is called
MatchCall(method, path) ==
    /\ ret = Idle
    /\ tree # Nil
    /\ ret' = [op |-> "match", method |-> method, path |-> path,
               m |-> matchInit(tree, path, pathVarValuesPool), arrived |-> EmptyMap]
    /\ UNCHANGED <<muxVars, handled, conc>>

\* mux.match(mux.hostTrees[host], path, r) is called
MatchHostCall(host, method, path) ==
    /\ ret = Idle
    /\ host \in DOMAIN hostTrees
    /\ ret' = [op |-> "match", method |-> method, path |-> path,
               m |-> matchInit(hostTrees[host], path, pathVarValuesPool), arrived |-> EmptyMap]
    /\ UNCHANGED <<muxVars, handled, conc>>

\* the nodes the search has arrived at, each with the search index and the
\* variable index it had once the node's prefix or value was consumed,
\* after the jump from m to m1
Arrivals(arrived, m, m1) ==
    IF m1.pc \in {"BacktrackToPreviousNode", "panic"} THEN arrived
    ELSE IF m.pc = "OuterLoop" /\ nodes[m.cn].typ = nonvarServeMuxNode /\ m.cn \notin DOMAIN arrived
         THEN MapPut(arrived, m.cn, [si |-> m1.si, pvi |-> m1.pvi])
    ELSE IF m.pc = "TryUnmodifiedVarNode" /\ m1.pc = "OuterLoop" /\ m1.cn \notin DOMAIN arrived
         THEN MapPut(arrived, m1.cn, [si |-> m1.si, pvi |-> m1.pvi])
    ELSE arrived

\* one jump of the loop
MatchJump ==
    /\ ret.op = "match"
    /\ ret.m.pc \notin {"End", "panic"}
    /\ ret' = [ret EXCEPT !.m = matchStep(nodes, ret.path, ret.method, ret.m),
                          !.arrived = Arrivals(@, ret.m, matchStep(nodes, ret.path, ret.method, ret.m))]
    /\ UNCHANGED <<muxVars, handled, conc>>

\* the statements after the loop, and match returns (or panics)
MatchReturn ==
    /\ ret.op = "match"
    /\ ret.m.pc \in {"End", "panic"}
    /\ pathVarValuesPool' = matchEnd(nodes, <<EmptyMap>>, ret.m).pool
    /\ ret' = Idle
    /\ UNCHANGED <<nodes, tree, hostTrees, registeredPatterns, maxPathVars, handled, conc>>

(***************************************************************************)
(* Concurrent use: one goroutine calls Handle, the goroutines of Readers   *)
(* call Handler, and every statement that reads or writes the mux is a     *)
(* step of its own.  Handle runs under mux.mu.Lock, mux.handler under      *)
(* mux.mu.RLock.                                                           *)
(***************************************************************************)
\* Lock without waiting for the lock to be free
lockAtOnce(mu) == TRUE

\* mux.mu.Lock() can return
canLock(mu) == ~mu.writer /\ mu.readers = 0

\* mux.mu.RLock() can return
canRLock(mu) == ~mu.writer /\ ~mu.pending

\* a goroutine calls mux.Handle(pattern, h)
WCall(pattern, h) ==
    /\ conc.w.pc = "idle"
    /\ conc' = [conc EXCEPT !.w = [Resting EXCEPT !.pc = "Lock", !.pattern = pattern, !.handler = h]]
    /\ UNCHANGED <<muxVars, handled, ret>>

\* mux.mu.Lock() is entered: from now on the readers that call RLock wait
WPending ==
    /\ conc.w.pc = "Lock"
    /\ ~conc.mu.pending
    /\ conc' = [conc EXCEPT !.mu.pending = TRUE]
    /\ UNCHANGED <<muxVars, handled, ret>>

\* mux.mu.Lock() returns
WLock ==
    /\ conc.w.pc = "Lock"
    /\ conc.mu.pending
    /\ canLock(conc.mu)
    /\ conc' = [conc EXCEPT !.mu.writer = TRUE, !.mu.pending = FALSE, !.w.pc = "checks"]
    /\ UNCHANGED <<muxVars, handled, ret>>

\* the checks of the arguments and the making of the host-less tree
WChecks ==
    /\ conc.w.pc = "checks"
    /\ IF conc.w.pattern = <<>>
       THEN /\ conc' = [conc EXCEPT !.w.pc = "Unlock", !.w.err = "empty pattern"]
            /\ UNCHANGED <<nodes, tree>>
       ELSE IF conc.w.handler = NilHandler
       THEN /\ conc' = [conc EXCEPT !.w.pc = "Unlock", !.w.err = "nil handler"]
            /\ UNCHANGED <<nodes, tree>>
       ELSE /\ conc' = [conc EXCEPT !.w.pc = "parse"]
            /\ IF tree = Nil
               THEN /\ nodes' = Append(nodes, serveMuxNode(<<>>, "", nonvarServeMuxNode, Nil))
                    /\ tree' = Len(nodes) + 1
               ELSE UNCHANGED <<nodes, tree>>
    /\ UNCHANGED <<hostTrees, registeredPatterns, maxPathVars, pathVarValuesPool, handled, ret>>

\* method, host, path, pathVarNames := mux.parsePattern(pattern)
WParse ==
    /\ conc.w.pc = "parse"
    /\ LET p == parsePattern(registeredPatterns, conc.w.pattern)
       IN  IF p.err # ""
           THEN /\ conc' = [conc EXCEPT !.w.pc = "Unlock", !.w.err = p.err]
                /\ UNCHANGED registeredPatterns
           ELSE /\ conc' = [conc EXCEPT !.w.pc = "tree", !.w.p = p]
                /\ registeredPatterns' = MapPut(registeredPatterns, p.key, conc.w.pattern)
    /\ UNCHANGED <<nodes, tree, hostTrees, maxPathVars, pathVarValuesPool, handled, ret>>

\* the tree of the pattern's host, made if there is none, and the pool
\* replaced when the pattern has more variables than any before
WTree ==
    /\ conc.w.pc = "tree"
    /\ LET p == conc.w.p
           newTree == p.host # <<>> /\ p.host \notin DOMAIN hostTrees
           t == IF p.host = <<>> THEN tree
                ELSE IF newTree THEN Len(nodes) + 1 ELSE hostTrees[p.host]
           grows == maxPathVars < Len(p.pathVarNames)
       IN  /\ nodes' = IF newTree THEN Append(nodes, serveMuxNode(<<>>, "", nonvarServeMuxNode, Nil))
                       ELSE nodes
           /\ hostTrees' = IF newTree THEN MapPut(hostTrees, p.host, t) ELSE hostTrees
           /\ maxPathVars' = IF grows THEN Len(p.pathVarNames) ELSE maxPathVars
           /\ pathVarValuesPool' = IF grows THEN [new |-> Len(p.pathVarNames), items |-> <<>>]
                                   ELSE pathVarValuesPool
           /\ conc' = [conc EXCEPT !.w.pc = "walk", !.w.t = t, !.w.k = 1,
                                   !.ids = IF grows THEN <<>> ELSE @]
    /\ UNCHANGED <<tree, registeredPatterns, handled, ret>>

\* one call of the function Handle passes to walkPath, or the end of the walk
WWalk ==
    /\ conc.w.pc = "walk"
    /\ LET p == conc.w.p
           ws == walkPath(p.path)
           ht == handlerTuple(p.method, p.pathVarNames, conc.w.pattern, conc.w.handler)
           a == HandleElem([h |-> [nodes |-> nodes, fault |-> ""], registered |-> registeredPatterns,
                            stop |-> FALSE],
                           ws[conc.w.k], conc.w.t, p.host, p.path, p.pathVarNames, conc.w.pattern, ht)
       IN  IF conc.w.k > Len(ws) \/ conc.w.stop
           THEN /\ conc' = [conc EXCEPT !.w.pc = "insert"]
                /\ UNCHANGED <<nodes, registeredPatterns>>
           ELSE /\ nodes' = a.h.nodes
                /\ registeredPatterns' = a.registered
                /\ conc' = IF a.h.fault # ""
                           THEN [conc EXCEPT !.w.pc = "Unlock", !.w.err = a.h.fault]
                           ELSE [conc EXCEPT !.w.k = @ + 1, !.w.stop = a.stop]
    /\ UNCHANGED <<tree, hostTrees, maxPathVars, pathVarValuesPool, handled, ret>>

\* mux.insert(tree, nonvarServeMuxNode, path, ht)
WInsert ==
    /\ conc.w.pc = "insert"
    /\ LET p == conc.w.p
           ht == handlerTuple(p.method, p.pathVarNames, conc.w.pattern, conc.w.handler)
           h3 == insert([nodes |-> nodes, fault |-> ""], conc.w.t, nonvarServeMuxNode, p.path, <<ht>>)
       IN  /\ nodes' = h3.nodes
           /\ conc' = [conc EXCEPT !.w.pc = "Unlock", !.w.err = h3.fault]
    /\ UNCHANGED <<tree, hostTrees, registeredPatterns, maxPathVars, pathVarValuesPool, handled, ret>>

\* Handle that unlocks where it returns and not where it panics
WUnlockOnReturn ==
    /\ conc.w.pc = "Unlock"
    /\ conc' = [conc EXCEPT !.mu.writer = (conc.w.err # ""), !.w = Resting, !.committed = SansItems(Mux)]
    /\ handled' = IF conc.w.err = ""
                  THEN Append(handled, [pattern |-> conc.w.pattern, handler |-> conc.w.handler])
                  ELSE handled
    /\ UNCHANGED <<muxVars, ret>>

\* the deferred mux.mu.Unlock(), and Handle returns or panics
WUnlock ==
    /\ conc.w.pc = "Unlock"
    /\ conc' = [conc EXCEPT !.mu.writer = FALSE, !.w = Resting, !.committed = SansItems(Mux)]
    /\ handled' = IF conc.w.err = ""
                  THEN Append(handled, [pattern |-> conc.w.pattern, handler |-> conc.w.handler])
                  ELSE handled
    /\ UNCHANGED <<muxVars, ret>>

\* the search state as a goroutine keeps it between its steps: the pool
\* is the mux's, not the search's
Unpooled(x) == [x EXCEPT !.pool = Nil]

\* what a call of Handler hands to its caller
Published(x) ==
    [h |-> x.h, pattern |-> x.pattern, pathVars |-> x.pathVars, panic |-> x.panic,
     location |-> x.location, readStale |-> x.m.readStale]

\* a goroutine calls mux.Handler(r): the path it will search
RCall(i, r) ==
    /\ conc.rd[i].pc = "idle"
    /\ conc' = [conc EXCEPT !.rd[i] =
                    [RestingReader EXCEPT !.pc = "RLock", !.r = r,
                         !.path = IF r.method # MethodConnect THEN cleanPath(r.path) ELSE r.path]]
    /\ UNCHANGED <<muxVars, handled, ret>>

\* mux.mu.RLock() and the choice of the tree to search first
RLock(i) ==
    /\ conc.rd[i].pc = "RLock"
    /\ canRLock(conc.mu)
    /\ LET me == conc.rd[i]
           key == IF me.r.method # MethodConnect THEN stripHostPort(me.r.host) ELSE me.r.host
           none == HandlerReturn(me.r, me.path,
                                 handlerReturn(noSearch(me.path, <<EmptyMap>>, pathVarValuesPool)))
           locked == [me EXCEPT !.seen = SansItems(Mux)]
       IN  conc' = [conc EXCEPT
                       !.mu.readers = @ + 1,
                       !.rd[i] =
                           IF DOMAIN hostTrees # {} /\ key \in DOMAIN hostTrees
                           THEN [locked EXCEPT !.pc = "search", !.stage = "host",
                                               !.m = Unpooled(matchInit(hostTrees[key], me.path, Nil))]
                           ELSE IF tree # Nil
                           THEN [locked EXCEPT !.pc = "search", !.stage = "hostless",
                                               !.m = Unpooled(matchInit(tree, me.path, Nil))]
                           ELSE [locked EXCEPT !.pc = "RUnlock", !.res = Published(none)]]
    /\ UNCHANGED <<muxVars, handled, ret>>

\* the search of goroutine i as it stands: its slice is a view of the
\* backing array it holds, the pool is the mux's
Standing(i) ==
    [conc.rd[i].m EXCEPT !.pool = pathVarValuesPool,
                         !.pvvs = IF conc.rd[i].buf # 0 THEN <<conc.heap[conc.rd[i].buf]>> ELSE <<>>]

\* a backing array that neither the pool nor a search holds
FreshBuf ==
    CHOOSE b \in BufIds :
        /\ \A k \in 1..Len(conc.ids) : conc.ids[k] # b
        /\ \A j \in Readers : conc.rd[j].buf # b

\* one jump of the search loop of match; the slice Get returns is the
\* pool's first, or a new one
RStep(i) ==
    /\ conc.rd[i].pc = "search"
    /\ conc.rd[i].m.pc \notin {"End", "panic"}
    /\ LET me == conc.rd[i]
           m1 == matchStep(nodes, me.path, me.r.method, Standing(i))
           id == IF me.buf # 0 \/ m1.pvvs = <<>> THEN me.buf
                 ELSE IF pathVarValuesPool.items # <<>> THEN Head(conc.ids)
                 ELSE FreshBuf
       IN  /\ pathVarValuesPool' = m1.pool
           /\ conc' = [conc EXCEPT
                           !.rd[i].m = Unpooled(m1),
                           !.rd[i].buf = id,
                           !.ids = IF Len(m1.pool.items) < Len(pathVarValuesPool.items) THEN Tail(@) ELSE @,
                           !.heap = IF m1.pvvs # <<>> THEN [@ EXCEPT ![id] = m1.pvvs[1]] ELSE @]
    /\ UNCHANGED <<nodes, tree, hostTrees, registeredPatterns, maxPathVars, handled, ret>>

\* match after its loop: the slice is Put, the values are published; then
\* the search of the host-less tree, or the result of Handler
REnd(i) ==
    /\ conc.rd[i].pc = "search"
    /\ conc.rd[i].m.pc \in {"End", "panic"}
    /\ LET me == conc.rd[i]
           r1 == matchEnd(nodes, <<EmptyMap>>, Standing(i))
           put == Len(r1.pool.items) > Len(pathVarValuesPool.items)
       IN  /\ pathVarValuesPool' = r1.pool
           /\ conc' = [conc EXCEPT
                           !.ids = IF put THEN Append(@, me.buf) ELSE @,
                           !.heap = IF me.buf = 0 THEN @
                                    ELSE [@ EXCEPT ![me.buf] =
                                             IF put THEN r1.pool.items[Len(r1.pool.items)] ELSE <<>>],
                           !.rd[i] =
                               IF me.stage = "host" /\ ~r1.panic /\ r1.h = NilHandler /\ tree # Nil
                               THEN [me EXCEPT !.stage = "hostless", !.buf = 0,
                                               !.m = Unpooled(matchInit(tree, me.path, Nil))]
                               ELSE [me EXCEPT !.pc = "RUnlock", !.buf = 0,
                                               !.res = Published(HandlerReturn(me.r, me.path, handlerReturn(r1)))]]
    /\ UNCHANGED <<nodes, tree, hostTrees, registeredPatterns, maxPathVars, handled, ret>>

\* the deferred mux.mu.RUnlock(), and Handler returns
RUnlock(i) ==
    /\ conc.rd[i].pc = "RUnlock"
    /\ conc' = [conc EXCEPT !.mu.readers = @ - 1, !.rd[i] = RestingReader]
    /\ UNCHANGED <<muxVars, handled, ret>>

\* the garbage collector empties the pool while goroutines use the mux
ConcPoolGC ==
    /\ pathVarValuesPool.items # <<>>
    /\ pathVarValuesPool' = [pathVarValuesPool EXCEPT !.items = <<>>]
    /\ conc' = [conc EXCEPT !.ids = <<>>,
                            !.heap = [b \in BufIds |->
                                         IF \E k \in 1..Len(conc.ids) : conc.ids[k] = b THEN <<>> ELSE @[b]]]
    /\ UNCHANGED <<nodes, tree, hostTrees, registeredPatterns, maxPathVars, handled, ret>>

(***************************************************************************)
(* The inputs.                                                             *)
(***************************************************************************)
Methods == {<<"G">>, <<"P">>}
Queries == {<<>>, <<"q">>}

\* the request paths "/" s1 "/" s2 ... of n segments taken from segs
RECURSIVE PathsOf(_, _)
PathsOf(segs, n) ==
    IF n = 0 THEN {<<>>}
    ELSE {<<"/">> \o sg \o rest : sg \in segs, rest \in PathsOf(segs, n - 1)}

PathsUpTo(segs, n) == UNION {PathsOf(segs, k) : k \in 1..n}

PatWildA == <<"P", " ", "/", "a", "/", "{", "x", ".", ".", ".", "}">>
PatVarB == <<"G", " ", "/", "{", "y", "}", "/", "b">>
PatSubtreeA == <<"/", "a", "/">>
PatGetA == <<"G", " ", "/", "a">>
PatA == <<"/", "a">>
PatVarVar == <<"/", "{", "x", "}", "/", "{", "y", "}">>
PatRootWild == <<"/", "{", "z", ".", ".", ".", "}">>
PatVarSubtree == <<"/", "{", "x", "}", "/">>
PatAEnd == <<"/", "a", "/", "{", "$", "}">>
PatB == <<"/", "b">>
PatHostGetA == <<"G", " ", "h", "/", "a">>
PatHostB == <<"h", "/", "b">>
PatHostPortA == <<"h", ":", "1", "/", "a">>
PatV6A == <<"[", ":", ":", "1", "]", "/", "a">>
PatBadBrace == <<"/", "{">>
PatDupVar == <<"/", "{", "x", "}", "/", "{", "x", "}">>
PatGetAEnd == <<"G", " ", "/", "a", "/", "{", "$", "}">>
PatVarEnd == <<"/", "{", "x", "}", "/", "{", "$", "}">>

\* the patterns registered, each with a handler of its own
Patterns ==
    {PatWildA, PatVarB, PatSubtreeA, PatGetA, PatA, PatVarVar, PatRootWild, PatVarSubtree, PatAEnd}

HandlerFor(pattern) ==
    CASE pattern = PatWildA -> "hWildA"
      [] pattern = PatVarB -> "hVarB"
      [] pattern = PatSubtreeA -> "hSubtreeA"
      [] pattern = PatGetA -> "hGetA"
      [] pattern = PatA -> "hA"
      [] pattern = PatVarVar -> "hVarVar"
      [] pattern = PatRootWild -> "hRootWild"
      [] pattern = PatVarSubtree -> "hVarSubtree"
      [] pattern = PatAEnd -> "hAEnd"
      [] pattern = PatB -> "hB"
      [] pattern = PatHostGetA -> "hHostGetA"
      [] pattern = PatHostB -> "hHostB"
      [] pattern = PatHostPortA -> "hHostPortA"
      [] pattern = PatV6A -> "hV6A"

Handlers == {HandlerFor(p) : p \in Patterns} \cup {"h1", "h2"}

Segments == {<<>>, <<"a">>, <<"b">>}

Next ==
    \/ \E p \in Patterns : HandleCall(p, HandlerFor(p))
    \/ \E m \in Methods, path \in PathsUpTo(Segments, MaxSegs), q \in Queries : ServeCall(m, <<>>, path, q)
    \/ Return
    \/ PoolGC

Spec == Init /\ [][Next]_vars

\* Requests whose path holds the byte 0xFF, on a mux with a few patterns.
BytePatterns == {PatSubtreeA, PatVarB, PatRootWild}

ByteSegments == {<<>>, <<"a">>, <<"0xFF">>}

NextBytes ==
    \/ \E p \in BytePatterns : HandleCall(p, HandlerFor(p))
    \/ \E m \in Methods, path \in PathsUpTo(ByteSegments, MaxSegs) : ServeCall(m, <<>>, path, <<>>)
    \/ Return
    \/ PoolGC

SpecBytes == Init /\ [][NextBytes]_vars

\* Registrations that differ in the names of their variables, in the kind
\* of an element, in the method or in the host, each with either handler.
PatAVarX == <<"/", "a", "/", "{", "x", "}">>
PatAVarY == <<"/", "a", "/", "{", "y", "}">>
PatAWildZ == <<"/", "a", "/", "{", "z", ".", ".", ".", "}">>
PatGetAVarX == <<"G", " ", "/", "a", "/", "{", "x", "}">>
PatHostAVarX == <<"h", "/", "a", "/", "{", "x", "}">>

ConflictPatterns == {PatAVarX, PatAVarY, PatAWildZ, PatSubtreeA, PatGetAVarX, PatHostAVarX}

ConflictHosts == {<<>>, <<"h">>}

ConflictSegments == {<<>>, <<"a">>}

NextConflict ==
    \/ \E p \in ConflictPatterns, h \in {"h1", "h2"} : HandleCall(p, h)
    \/ \E m \in Methods, host \in ConflictHosts, path \in PathsUpTo(ConflictSegments, MaxSegs) :
          ServeCall(m, host, path, <<>>)
    \/ Return
    \/ PoolGC

SpecConflict == Init /\ [][NextConflict]_vars

\* CONNECT and GET requests whose paths hold "." and ".." elements.
ConnectPatterns == {PatSubtreeA, PatB, PatVarB}

ConnectMethods == {<<"G">>, MethodConnect}

ConnectSegments == {<<"a">>, <<"b">>, <<".">>, <<".", ".">>}

NextConnect ==
    \/ \E p \in ConnectPatterns : HandleCall(p, HandlerFor(p))
    \/ \E m \in ConnectMethods, path \in PathsUpTo(ConnectSegments, MaxSegs), q \in Queries :
          ServeCall(m, <<>>, path, q)
    \/ Return
    \/ PoolGC

SpecConnect == Init /\ [][NextConnect]_vars

\* Patterns with and without a host, and requests whose Host is a name or
\* an IP literal, with and without a port.
HostPatterns == {PatHostGetA, PatA, PatB, PatHostPortA, PatV6A}

HostMethods == {<<"G">>, <<"P">>, MethodConnect}

Hosts ==
    {<<>>, <<"h">>, <<"h", ":", "1">>, <<"[", ":", ":", "1", "]">>, <<"[", ":", ":", "1", "]", ":", "1">>}

HostSegs == 1

NextHost ==
    \/ \E p \in HostPatterns : HandleCall(p, HandlerFor(p))
    \/ \E m \in HostMethods, host \in Hosts, path \in PathsUpTo({<<"a">>, <<"b">>}, HostSegs) :
          ServeCall(m, host, path, <<>>)
    \/ Return

SpecHost == Init /\ [][NextHost]_vars

\* Registrations that fail (the empty pattern, a nil handler, a pattern
\* that breaks the grammar, a pattern registered twice) among registrations
\* that succeed, and requests whose path holds the byte 0xFF, one of them
\* with no leading slash.
FailPatterns == {PatSubtreeA, PatA, PatVarB, <<>>, PatBadBrace, PatDupVar}

FailHandlers == {"h1", NilHandler}

FailSegs == 2

FailRequests ==
    {[method |-> m, host |-> <<>>, path |-> path, rawQuery |-> <<>>] :
        m \in {<<"G">>, MethodConnect},
        path \in PathsUpTo({<<"a">>, <<"0xFF">>}, FailSegs) \cup {<<"0xFF">>}}

NextFail ==
    \/ \E p \in FailPatterns, h \in FailHandlers : HandleCall(p, h)
    \/ \E p \in FailPatterns, h \in FailHandlers : HandleFuncCall(p, h)
    \/ \E r \in FailRequests : ServeCall(r.method, r.host, r.path, r.rawQuery)
    \/ Return
    \/ PoolGC

SpecFail == Init /\ [][NextFail]_vars

\* One goroutine that registers and two that look up, concurrently.
ConcHandles == 2

ConcPatterns == {PatSubtreeA, PatVarVar, PatHostAVarX}

ConcRequests ==
    {[method |-> <<"G">>, host |-> host, path |-> path, rawQuery |-> <<>>] :
        host \in {<<>>, <<"h">>},
        path \in {<<"/", "a">>, <<"/", "a", "/", "b">>, <<"/", "b", "/", "a">>}}

NextConc ==
    \/ \E p \in ConcPatterns : Len(handled) < ConcHandles /\ WCall(p, "h1")
    \/ WPending
    \/ WLock
    \/ WChecks
    \/ WParse
    \/ WTree
    \/ WWalk
    \/ WInsert
    \/ WUnlock
    \/ \E i \in Readers, r \in ConcRequests : RCall(i, r)
    \/ \E i \in Readers : RLock(i)
    \/ \E i \in Readers : RStep(i)
    \/ \E i \in Readers : REnd(i)
    \/ \E i \in Readers : RUnlock(i)
    \/ ConcPoolGC

SpecConc == Init /\ [][NextConc]_vars

\* Patterns that end in {$}, with the {name}, {name...} and trailing-slash
\* patterns that have the same elements before the last.
EndPatterns ==
    {PatAEnd, PatGetAEnd, PatVarEnd, <<"/", "a", "/", "{", "y", "}">>,
     <<"/", "a", "/", "{", "z", ".", ".", ".", "}">>, PatSubtreeA, PatVarVar, PatVarSubtree}

EndSegs == 2

NextEnd ==
    \/ \E p \in EndPatterns : HandleCall(p, "h1")
    \/ \E m \in Methods, path \in PathsUpTo(Segments, EndSegs) : ServeCall(m, <<>>, path, <<>>)
    \/ Return
    \/ PoolGC

SpecEnd == Init /\ [][NextEnd]_vars

\* Patterns that end with '/', the same patterns with {...} or {z...}
\* appended, with and without a method and a host.
SlashPatterns ==
    {PatSubtreeA, PatSubtreeA \o Ellipsis, <<"/", "a", "/", "{", "z", ".", ".", ".", "}">>,
     <<"G", " ">> \o PatSubtreeA, <<"G", " ">> \o PatSubtreeA \o Ellipsis,
     PatVarSubtree, PatVarSubtree \o Ellipsis,
     <<"h">> \o PatSubtreeA, <<"h">> \o PatSubtreeA \o Ellipsis,
     PatA}

SlashSegs == 2

NextSlash ==
    \/ \E p \in SlashPatterns : HandleCall(p, "h1")
    \/ \E m \in Methods, host \in {<<>>, <<"h">>}, path \in PathsUpTo(Segments, SlashSegs) :
          ServeCall(m, host, path, <<>>)
    \/ Return
    \/ PoolGC

SpecSlash == Init /\ [][NextSlash]_vars

\* Patterns with an element that holds a brace without being {...} as a
\* whole, beside a variable and a literal.
PatMixedTail == <<"/", "a", "{", "b", "}">>
PatMixedHead == <<"/", "{", "a", "}", "b">>
PatMixedMid == <<"/", "a", "{", "b", "}", "c">>
PatMixedOpen == <<"/", "a", "{">>

BracePatterns ==
    {PatMixedTail, PatMixedHead, PatMixedMid, PatMixedOpen, PatBadBrace, <<"/", "{", "x", "}">>, PatA}

BraceSegments == {<<"a">>, <<"a", "{">>, <<"a", "{", "b", "}", "c">>}

BraceSegs == 2

NextBrace ==
    \/ \E p \in BracePatterns : HandleCall(p, "h1")
    \/ \E m \in Methods, path \in PathsUpTo(BraceSegments, BraceSegs) : ServeCall(m, <<>>, path, <<>>)
    \/ Return
    \/ PoolGC

SpecBrace == Init /\ [][NextBrace]_vars

\* Patterns without a path: a host alone, with and without a method, a
\* method alone, the empty pattern, a host that does not parse; beside
\* patterns with a path.
PatHostOnly == <<"h">>
PatGetHostOnly == <<"G", " ", "h">>

NoPathPatterns == {PatHostOnly, PatGetHostOnly, <<"G", " ">>, <<>>, <<"h", ":", "x">>, PatHostB, PatA}

NoPathRequests ==
    {[method |-> m, host |-> host, path |-> path, rawQuery |-> <<>>] :
        m \in {<<"G">>, MethodConnect}, host \in {<<>>, <<"h">>},
        path \in {<<>>, <<"/", "a">>, <<"/", "b">>}}

NextNoPath ==
    \/ \E p \in NoPathPatterns : HandleCall(p, "h1")
    \/ \E r \in NoPathRequests : ServeCall(r.method, r.host, r.path, r.rawQuery)
    \/ Return

SpecNoPath == Init /\ [][NextNoPath]_vars

\* Registrations alone: patterns whose inserts split nodes that have
\* children, in the host-less tree and in a host's tree, literals with
\* braces included.
TreePatterns ==
    Patterns \cup {<<"h", "/", "a", "/", "{", "x", "}">>, <<"/", "a", "b">>, PatMixedMid,
                   <<"/", "a", "{", "b", "}", "b">>}

NextTree ==
    \/ \E p \in TreePatterns : HandleCall(p, "h1")
    \/ Return

SpecTree == Init /\ [][NextTree]_vars

\* Searches of the host-less tree, jump by jump, on trees with static,
\* variable and wildcard children that make the search backtrack.
SearchPatterns == {PatWildA, PatVarB, PatSubtreeA, PatVarVar, PatRootWild, PatVarSubtree, PatA}

SearchSegs == 2

NextSearch ==
    \/ \E p \in SearchPatterns : HandleCall(p, HandlerFor(p))
    \/ ret.op = "Handle" /\ Return
    \/ \E m \in Methods, path \in PathsUpTo(Segments, SearchSegs) : MatchCall(m, path)
    \/ MatchJump
    \/ MatchReturn
    \/ PoolGC

SpecSearch == Init /\ [][NextSearch]_vars

\* a search that is in its loop takes its next jump
LiveSearch == SpecSearch /\ WF_vars(MatchJump) /\ WF_vars(MatchReturn)

\* Registrations that panic in the checks, in parsePattern and in insert,
\* among registrations that return, while two goroutines look up.
LockHandles == 2

LockPatterns == {PatA, PatMixedOpen, PatBadBrace, <<>>}

LockRequests ==
    {[method |-> <<"G">>, host |-> <<>>, path |-> path, rawQuery |-> <<>>] :
        path \in {<<"/", "a">>, <<"/", "b">>}}

NextLock ==
    \/ \E p \in LockPatterns : Len(handled) < LockHandles /\ WCall(p, "h1")
    \/ WPending
    \/ WLock
    \/ WChecks
    \/ WParse
    \/ WTree
    \/ WWalk
    \/ WInsert
    \/ WUnlock
    \/ \E i \in Readers, r \in LockRequests : RCall(i, r)
    \/ \E i \in Readers : RLock(i)
    \/ \E i \in Readers : RStep(i)
    \/ \E i \in Readers : REnd(i)
    \/ \E i \in Readers : RUnlock(i)

SpecLock == Init /\ [][NextLock]_vars

\* Every goroutine that can take its next step takes it.  A call of Lock
\* keeps later calls of RLock waiting, so the readers leave and Lock
\* returns; Unlock wakes the readers that wait before Lock can return
\* again, so a reader that waits gets the lock.
LiveLock ==
    /\ SpecLock
    /\ WF_vars(WPending) /\ WF_vars(WLock) /\ WF_vars(WChecks) /\ WF_vars(WParse) /\ WF_vars(WTree)
    /\ WF_vars(WWalk) /\ WF_vars(WInsert) /\ WF_vars(WUnlock)
    /\ \A i \in Readers :
          SF_vars(RLock(i)) /\ WF_vars(RStep(i)) /\ WF_vars(REnd(i)) /\ WF_vars(RUnlock(i))

\* Patterns with none to three variables, in the host-less tree and in the
\* tree of h, literals with a brace in them and a registration that fails
\* in insert.
PatHostThree == <<"h", "/", "{", "x", "}", "/", "{", "y", "}", "/", "{", ".", ".", ".", "}">>
PatBraceVar == <<"/", "a", "{", "/", "{", "x", "}">>

BufPatterns == {PatA, PatVarVar, PatSubtreeA, PatRootWild, PatHostAVarX, PatHostThree, PatBraceVar, PatMixedOpen}

BufSegs == 2

BufPaths ==
    PathsUpTo(Segments, BufSegs)
        \cup {<<"/", "a", "b">>, <<"/", "a", "{", "/", "b">>, <<"/", "a", "/", "b", "/", "a">>}

NextBuf ==
    \/ \E p \in BufPatterns : HandleCall(p, "h1")
    \/ ret.op = "Handle" /\ Return
    \/ \E path \in BufPaths : MatchCall(<<"G">>, path)
    \/ \E path \in BufPaths : MatchHostCall(<<"h">>, <<"G">>, path)
    \/ MatchJump
    \/ MatchReturn
    \/ PoolGC

SpecBuf == Init /\ [][NextBuf]_vars

(***************************************************************************)
(* What the documentation says a pattern matches, element by element,      *)
(* stated on the pattern as written and on the '/'-separated segments of   *)
(* the request path (README, "Request Matching").  The properties below    *)
(* compare the search of the radix tree with it.                           *)
(***************************************************************************)
\* the text between the slashes of a path that starts with '/':
\* "/a//b/" is <<"a", "", "b", "">>
RECURSIVE SplitSlash(_)
SplitSlash(path) ==
    IF path = <<>> THEN <<>>
    ELSE LET rest == From(path, 1)
             n == IF Index(rest, "/") >= 0 THEN Index(rest, "/") ELSE Len(rest)
         IN  <<Upto(rest, n)>> \o SplitSlash(From(rest, n))

PatMethod(pattern) ==
    LET sp == Index(pattern, " ") IN IF sp >= 0 THEN Upto(pattern, sp) ELSE <<>>

PatHostPath(pattern) ==
    LET sp == Index(pattern, " ") IN IF sp >= 0 THEN From(pattern, sp + 1) ELSE pattern

PatHost(pattern) ==
    LET hp == PatHostPath(pattern) IN IF Index(hp, "/") >= 0 THEN Upto(hp, Index(hp, "/")) ELSE hp

PatPath(pattern) ==
    LET hp == PatHostPath(pattern) IN IF Index(hp, "/") >= 0 THEN From(hp, Index(hp, "/")) ELSE <<>>

\* the path elements of a pattern
PatElems(pattern) == SplitSlash(PatPath(pattern))

IsVarElem(e) == Len(e) >= 2 /\ e[1] = "{" /\ e[Len(e)] = "}"

\* the kind of the k-th element of a pattern: "literal", "end" ({$}),
\* "var" ({name}), "wildcard" ({name...}, or the empty last element of a
\* pattern that ends in '/')
ElemKind(es, k) ==
    LET e == es[k]
    IN  IF e = <<>> /\ k = Len(es) THEN "wildcard"
        ELSE IF ~IsVarElem(e) THEN "literal"
        ELSE IF e = <<"{", "$", "}">> THEN "end"
        ELSE IF Len(e) >= 5 /\ SubSeq(e, Len(e) - 3, Len(e) - 1) = <<".", ".", ".">> THEN "wildcard"
        ELSE "var"

\* the name of a variable element ("" when it has none)
ElemName(es, k) ==
    LET e == es[k]
    IN  CASE ElemKind(es, k) = "var" -> Slice(e, 1, Len(e) - 1)
          [] ElemKind(es, k) = "wildcard" /\ e # <<>> -> Slice(e, 1, Len(e) - 4)
          [] OTHER -> <<>>

\* the pattern's path matches the request path
PathMatches(pattern, path) ==
    LET es == PatElems(pattern)
        segs == SplitSlash(path)
        n == Len(es)
    IN  /\ Len(segs) >= n
        /\ \A k \in 1..n :
              CASE ElemKind(es, k) = "literal" -> segs[k] = es[k]
                [] ElemKind(es, k) = "var" -> TRUE
                [] ElemKind(es, k) = "end" -> segs[k] = <<>>
                [] ElemKind(es, k) = "wildcard" -> TRUE
        /\ ElemKind(es, n) # "wildcard" => Len(segs) = n

\* a handler registered with the pattern serves requests of the method
MethodUsable(pattern, method) == PatMethod(pattern) \in {<<>>, method}

\* segs[k..] joined with '/'
RECURSIVE JoinFrom(_, _)
JoinFrom(segs, k) ==
    IF k > Len(segs) THEN <<>>
    ELSE IF k = Len(segs) THEN segs[k]
    ELSE segs[k] \o <<"/">> \o JoinFrom(segs, k + 1)

\* the values of the named variables of a pattern that matches the path
Bindings(pattern, path) ==
    LET es == PatElems(pattern)
        segs == SplitSlash(path)
        named == {k \in 1..Len(es) : ElemName(es, k) # <<>>}
    IN  [nm \in {ElemName(es, k) : k \in named} |->
            LET k == CHOOSE j \in named : ElemName(es, j) = nm
            IN  IF ElemKind(es, k) = "wildcard" THEN JoinFrom(segs, k) ELSE segs[k]]

\* the number of elements of a pattern that capture a value
VarCount(pattern) ==
    Cardinality({k \in 1..Len(PatElems(pattern)) : ElemKind(PatElems(pattern), k) \in {"var", "wildcard"}})

KindRank(kind) ==
    CASE kind = "literal" -> 0 [] kind = "end" -> 1 [] kind = "var" -> 2 [] kind = "wildcard" -> 3

\* p is more specific than q at the first element where their kinds differ
MoreSpecific(p, q) ==
    LET ep == PatElems(p)
        eq == PatElems(q)
        n == IF Len(ep) < Len(eq) THEN Len(ep) ELSE Len(eq)
        diff == {k \in 1..n : ElemKind(ep, k) # ElemKind(eq, k)}
    IN  /\ diff # {}
        /\ LET k == CHOOSE j \in diff : \A i \in diff : j <= i
           IN  KindRank(ElemKind(ep, k)) < KindRank(ElemKind(eq, k))

\* the registrations in force
Registered == {handled[i] : i \in 1..Len(handled)}

\* the registrations that match the path and the method of a request
Candidates(path, method) ==
    {g \in Registered : PathMatches(g.pattern, path) /\ MethodUsable(g.pattern, method)}

\* ServeHTTP is about to return, and the path it searched was the request's
\* own path (it was canonical, or the method is CONNECT)
Served == ret.op = "ServeHTTP" /\ ~ret.panic

ServedAsIs == Served /\ ret.h # "redirect"

\* the result is the registration g: its handler and its pattern string
ResultIs(g) == ret.h = g.handler /\ ret.pattern = g.pattern

C2_MostSpecificCandidateWins ==
    (ServedAsIs /\ ret.h # "tsr" /\ Cardinality(Candidates(ret.r.path, ret.r.method)) >= 2)
        => \E g \in Candidates(ret.r.path, ret.r.method) :
              /\ ResultIs(g)
              /\ \A q \in Candidates(ret.r.path, ret.r.method) : ~MoreSpecific(q.pattern, g.pattern)

(***************************************************************************)
(* C3.  Handler returns a non-nil handler and never faults, for every      *)
(* request path, bytes up to 0xFF included.                                *)
(***************************************************************************)
C3_HandlerNeverFaults ==
    ret.op = "ServeHTTP" => ~ret.panic /\ ret.h # NilHandler

TsrPath(pattern) ==
    LET es == PatElems(pattern)
        n == Len(es)
    IN  IF /\ n >= 2
           /\ ElemKind(es, n) = "wildcard"
           /\ \A k \in 1..(n - 1) : ElemKind(es, k) = "literal"
        THEN TrimRightSlash(<<"/">> \o JoinFrom(SubSeq(es, 1, n - 1), 1))
        ELSE <<>>

\* the paths of two patterns are the same but for the names of variables
SamePathNormal(p, q) ==
    LET ep == PatElems(p)
        eq == PatElems(q)
    IN  /\ Len(ep) = Len(eq)
        /\ \A k \in 1..Len(ep) :
              /\ ElemKind(ep, k) = ElemKind(eq, k)
              /\ ElemKind(ep, k) = "literal" => ep[k] = eq[k]

\* a registered pattern has exactly this path
ExplicitAt(path) == \E q \in Registered : PatPath(q.pattern) = path

\* the synthesized redirect answers requests for the path
TsrInForce(path) ==
    /\ path # <<>>
    /\ \E g \in Registered : TsrPath(g.pattern) = path
    /\ ~ExplicitAt(path)

\* the pattern that redirect reports: the first registered one that asks for it
TsrPattern(path) ==
    LET is == {i \in 1..Len(handled) : TsrPath(handled[i].pattern) = path}
    IN  handled[CHOOSE i \in is : \A j \in is : i <= j].pattern

\* some registered pattern matches the path, whatever its method
PathMatched(path) == \E g \in Registered : PathMatches(g.pattern, path)

\* the response is the 405 (the 404) handler's, with no pattern
IsMethodNotAllowed ==
    ret.h = "methodNotAllowed" /\ ret.status = StatusMethodNotAllowed /\ ret.pattern = <<>>

IsNotFound == ret.h = "notFound" /\ ret.status = StatusNotFound /\ ret.pattern = <<>>

Instantiates(pattern, path) ==
    LET es == PatElems(pattern)
        segs == SplitSlash(path)
    IN  /\ PathMatches(pattern, path)
        /\ Len(segs) = Len(es)
        /\ \A k \in 1..Len(es) :
              (ElemKind(es, k) \in {"var", "wildcard"} /\ es[k] # <<>>) => segs[k] # <<>>

\* q takes precedence over p for requests of the method: it is more
\* specific, or as specific and registered for the method itself
HigherPrecedence(q, p, method) ==
    \/ MoreSpecific(q, p)
    \/ ~MoreSpecific(p, q) /\ PatMethod(q) = method /\ PatMethod(p) = <<>>

C7_RegisteredPatternStaysReachable ==
    ServedAsIs =>
        \A g \in Registered :
            ( /\ Instantiates(g.pattern, ret.r.path)
              /\ MethodUsable(g.pattern, ret.r.method)
              /\ ~TsrInForce(ret.r.path)
              /\ \A q \in Candidates(ret.r.path, ret.r.method) :
                    ~HigherPrecedence(q.pattern, g.pattern, ret.r.method) )
            => ResultIs(g)

(***************************************************************************)
(* C8.  Handle panics with a conflict exactly when a registered pattern    *)
(* has the method, the host and the path of the new one, the path compared *)
(* with the names of the variables erased and the kinds of the elements    *)
(* kept, whichever handler is passed; the call that panics changes nothing *)
(* of the mux, so the earlier registration stays in force.                 *)
(***************************************************************************)
SameNormal(p, q) == PatMethod(p) = PatMethod(q) /\ PatHost(p) = PatHost(q) /\ SamePathNormal(p, q)

C8_ConflictOnSameNormalForm ==
    [][(ret = Idle /\ ret'.op = "Handle") =>
          IF \E g \in Registered : SameNormal(g.pattern, ret'.pattern)
          THEN ret'.err = "conflict" /\ UNCHANGED <<muxVars, handled>>
          ELSE ret'.err # "conflict"]_vars

\* a registration was refused that differs from the earlier one in the name
\* of its variable and in its handler, with a pattern of another kind at
\* the same place registered beside it
C8_Witness ==
    /\ ret.op = "Handle"
    /\ ret.err = "conflict"
    /\ \E g \in Registered :
          SameNormal(g.pattern, ret.pattern) /\ g.pattern # ret.pattern /\ g.handler # ret.handler
    /\ \E g \in Registered : g.pattern = PatAWildZ

(***************************************************************************)
(* C9 as stated.  For every registered pattern whose path is P/ with P     *)
(* non-empty, of literal or of variable elements, and with no registration *)
(* for P itself, a request whose path is P is answered 301 with Location   *)
(* P/ and the request's query, and Handler reports the pattern P/.  (Only  *)
(* requests that no registered pattern matches are held against it.)       *)
(***************************************************************************)
\* the pattern's path is P/ for a non-empty P: P, else <<>>
BeforeSlash(pattern) ==
    LET pp == PatPath(pattern)
    IN  IF Len(pp) >= 2 /\ pp[Len(pp)] = "/" THEN Upto(pp, Len(pp) - 1) ELSE <<>>

\* the response redirects to the request's path with a '/' added and the
\* request's query
RedirectsToSlash ==
    /\ ret.status = StatusMovedPermanently
    /\ ret.location = <<[path |-> ret.r.path \o <<"/">>, rawQuery |-> ret.r.rawQuery]>>

ExplicitFor(path, method) ==
    {q \in Registered : PatPath(q.pattern) = path /\ MethodUsable(q.pattern, method)}

RECURSIVE CanonicalElems(_, _, _)
CanonicalElems(segs, k, kept) ==
    IF k > Len(segs) THEN kept
    ELSE CanonicalElems(segs, k + 1,
             CASE segs[k] \in {<<>>, <<".">>} -> kept
               [] segs[k] = <<".", ".">> -> SubSeq(kept, 1, Len(kept) - 1)
               [] OTHER -> Append(kept, segs[k]))

Canonical(path) ==
    LET kept == CanonicalElems(SplitSlash(path), 1, <<>>)
    IN  IF kept = <<>> THEN <<"/">>
        ELSE <<"/">> \o JoinFrom(kept, 1) \o (IF path[Len(path)] = "/" THEN <<"/">> ELSE <<>>)

\* the response redirects to the path, with the request's query
RedirectsTo(path) ==
    /\ ret.status = StatusMovedPermanently
    /\ ret.location = <<[path |-> path, rawQuery |-> ret.r.rawQuery]>>

\* the patterns a lookup of the path may report: those of the registrations
\* that match it for the method, and that of the synthesized redirect in
\* force at it; the empty pattern if there is none
ReportablePatterns(path, method) ==
    LET ps == {g.pattern : g \in Candidates(path, method)}
                  \cup (IF TsrInForce(path) THEN {TsrPattern(path)} ELSE {})
    IN  IF ps = {} THEN {<<>>} ELSE ps

(***************************************************************************)
(* C11.  A request whose method is not CONNECT and whose path is not in    *)
(* canonical form is answered by a 301 redirect to the canonical path with *)
(* the request's query, never by the matched handler, whether or not the   *)
(* canonical path matches a pattern; the pattern reported is the one the   *)
(* canonical path matches, and empty if it matches none.                   *)
(***************************************************************************)
C11_NonCanonicalPathRedirects ==
    (Served /\ ret.r.method # MethodConnect /\ Canonical(ret.r.path) # ret.r.path)
        => /\ ret.h = "redirect"
           /\ RedirectsTo(Canonical(ret.r.path))
           /\ ret.pattern \in ReportablePatterns(Canonical(ret.r.path), ret.r.method)

(***************************************************************************)
(* C12.  The path of a CONNECT request is matched as it was received: the  *)
(* request is never answered by the redirect to the canonical path, "."    *)
(* and ".." are path elements like any other, and the synthesized          *)
(* trailing-slash redirect of a subtree pattern still applies.  With /a/   *)
(* and /b registered, CONNECT /a/.. and CONNECT /a/./b are served by /a/,  *)
(* CONNECT /../b is 404 and CONNECT /a is the 301 to /a/.                  *)
(***************************************************************************)
C12_ConnectPathAsReceived ==
    (Served /\ ret.r.method = MethodConnect)
        => /\ ret.h # "redirect"
           /\ IF TsrInForce(ret.r.path)
              THEN ret.h = "tsr" /\ RedirectsToSlash /\ ret.pattern = TsrPattern(ret.r.path)
              ELSE IF Candidates(ret.r.path, ret.r.method) # {}
              THEN \E g \in Candidates(ret.r.path, ret.r.method) : ResultIs(g)
              ELSE IF PathMatched(ret.r.path) THEN IsMethodNotAllowed
              ELSE IsNotFound

\* with /a/ and /b registered, CONNECT /a/.. was served by the handler of /a/
C12_Witness ==
    /\ Served
    /\ ret.r.method = MethodConnect
    /\ ret.r.path = <<"/", "a", "/", ".", ".">>
    /\ ret.h = HandlerFor(PatSubtreeA)
    /\ ret.pattern = PatSubtreeA
    /\ \E g \in Registered : g.pattern = PatB

(***************************************************************************)
(* Host matching as the documentation states it (README, "Request          *)
(* Matching", items 1 and 2): the host of the request, without its port    *)
(* unless the method is CONNECT, selects the tree of the patterns          *)
(* registered with that host; if the match fails there or there is no such *)
(* tree, the match continues among the patterns registered without a host. *)
(***************************************************************************)
\* the host without its trailing ":port"
WithoutPort(host) ==
    LET c == LastIndex(host, ":")
    IN  IF /\ c >= 1
           /\ \A i \in (c + 2)..Len(host) : host[i] \in Digits
           /\ Index(Upto(host, c), ":") < 0 \/ (host[1] = "[" /\ host[c] = "]")
        THEN Upto(host, c)
        ELSE host

\* the host whose patterns the request is matched against first
HostKey(r) == IF r.method # MethodConnect THEN WithoutPort(r.host) ELSE r.host

\* the registrations with the host that match the path and the method
HostCandidates(host, path, method) ==
    {g \in Candidates(path, method) : PatHost(g.pattern) = host}

\* those that match the path, whatever their method
HostPathMatched(host, path) ==
    \E g \in Registered : PatHost(g.pattern) = host /\ PathMatches(g.pattern, path)

\* the request's host has a dedicated tree
HasHostTree(r) == HostKey(r) # <<>> /\ \E g \in Registered : PatHost(g.pattern) = HostKey(r)

(***************************************************************************)
(* C13.  A pattern of the request host's own tree that matches the path    *)
(* and the method always wins; when that tree has none (no pattern of it   *)
(* matches the path, or one does but not for the method), or there is no   *)
(* tree for the host, the request gets what the host-less patterns give    *)
(* it: the handler of one that matches, else 405 or 404.                   *)
(***************************************************************************)
C13_HostTreeThenHostless ==
    ServedAsIs =>
        LET r == ret.r
            own == IF HasHostTree(r) THEN HostCandidates(HostKey(r), r.path, r.method) ELSE {}
            hostless == HostCandidates(<<>>, r.path, r.method)
        IN  IF own # {} THEN \E g \in own : ResultIs(g)
            ELSE IF hostless # {} THEN \E g \in hostless : ResultIs(g)
            ELSE IF HostPathMatched(<<>>, r.path) THEN IsMethodNotAllowed
            ELSE IsNotFound

(***************************************************************************)
(* C14.  The tree searched first is that of the request's host with its    *)
(* port removed when the method is not CONNECT, and that of the host as    *)
(* it was sent when the method is CONNECT: a pattern of that host which    *)
(* matches the path and the method serves the request, and no pattern of   *)
(* another host ever does (a pattern with host h:p serves only CONNECT     *)
(* requests whose Host is h:p; a CONNECT request with Host h:p is never    *)
(* served by a pattern with host h).                                       *)
(***************************************************************************)
C14_PortIgnoredUnlessConnect ==
    ServedAsIs =>
        /\ ret.pattern # <<>> => PatHost(ret.pattern) \in {<<>>, HostKey(ret.r)}
        /\ HostCandidates(HostKey(ret.r), ret.r.path, ret.r.method) # {}
              => \E g \in HostCandidates(HostKey(ret.r), ret.r.path, ret.r.method) : ResultIs(g)

(***************************************************************************)
(* C15.  A registration call that fails (empty pattern, nil handler,       *)
(* pattern that breaks the grammar, pattern in conflict with a registered  *)
(* one) records nothing: the registered-pattern set, maxPathVars and the   *)
(* buffer pool are as before, the nodes that existed are as before and a   *)
(* node the call made carries no handler entry, and every request is       *)
(* answered after the call as it was before it.                            *)
(***************************************************************************)
\* the failures of a registration that the contract lists
RegistrationFailures ==
    {"empty pattern", "nil handler", "conflict", "syntax: method", "syntax: no host and no path",
     "syntax: host", "syntax: element neither variable nor literal", "syntax: variable name",
     "syntax: duplicate variable name", "syntax: ... not last", "syntax: $ not last",
     "syntax: $ with a name", "syntax: modifier"}

\* the multiplexer in the next state
MuxAfter ==
    [nodes |-> nodes', tree |-> tree', hostTrees |-> hostTrees',
     registeredPatterns |-> registeredPatterns', maxPathVars |-> maxPathVars',
     pathVarValuesPool |-> pathVarValuesPool']

\* the step attached no handler entry to any node
NoEntryAttached ==
    /\ Len(nodes') >= Len(nodes)
    /\ \A i \in 1..Len(nodes) :
          /\ nodes'[i].handlerTuples = nodes[i].handlerTuples
          /\ nodes'[i].catchAllHandlerTuple = nodes[i].catchAllHandlerTuple
    /\ \A i \in (Len(nodes) + 1)..Len(nodes') :
          nodes'[i].handlerTuples = EmptyMap /\ nodes'[i].catchAllHandlerTuple = <<>>

C15_FailedHandleRecordsNothing ==
    [][(ret = Idle /\ ret'.op = "Handle" /\ ret'.err \in RegistrationFailures)
          => /\ registeredPatterns' = registeredPatterns
             /\ maxPathVars' = maxPathVars
             /\ pathVarValuesPool' = pathVarValuesPool
             /\ handled' = handled
             /\ NoEntryAttached
             /\ \A r \in FailRequests : ServeHTTP(MuxAfter, r).ret = ServeHTTP(Mux, r).ret]_vars

RegisteredAt(path) ==
    {g \in Registered :
        /\ PatPath(g.pattern) = path
        /\ \A k \in 1..Len(PatElems(g.pattern)) : ElemKind(PatElems(g.pattern), k) = "literal"}

MatchingPath(path) == {g \in Registered : PathMatches(g.pattern, path)}

Searching == {i \in Readers : conc.rd[i].pc \in {"search", "RUnlock"}}

\* Handler on the mux a goroutine saw when it took the read lock
OnSnapshot(i) == Published(Handler(conc.rd[i].seen, conc.rd[i].r, <<EmptyMap>>))

\* C16: a lookup that runs concurrently with registrations never sees a
\* partially applied Handle.  While a goroutine is between RLock and
\* RUnlock no Handle is between Lock and Unlock, the mux is the one the
\* last completed Handle left and the one the goroutine saw when it took
\* the lock, and what the lookup returns is what Handler returns on that
\* mux; while Handle holds the lock no lookup is inside, and what Handle
\* leaves at Unlock is the whole effect of Handle on the mux it found.
C16_LookupSeesWholeHandles ==
    /\ \A i \in Searching :
          /\ ~conc.mu.writer
          /\ conc.w.pc \in {"idle", "Lock"}
          /\ SansItems(Mux) = conc.rd[i].seen
          /\ conc.rd[i].seen = conc.committed
          /\ conc.rd[i].pc = "RUnlock" =>
                /\ conc.rd[i].res.h = OnSnapshot(i).h
                /\ conc.rd[i].res.pattern = OnSnapshot(i).pattern
                /\ conc.rd[i].res.pathVars = OnSnapshot(i).pathVars
                /\ conc.rd[i].res.location = OnSnapshot(i).location
    /\ conc.mu.readers = Cardinality(Searching)
    /\ conc.w.pc \notin {"idle", "Lock"} => conc.mu.writer /\ conc.mu.readers = 0
    /\ conc.w.pc = "Unlock" =>
          SansItems(Mux) = SansItems(Handle(conc.committed, conc.w.pattern, conc.w.handler).mux)

\* after a Handle has finished, a lookup has found a pattern with variables
\* and another is searching while the next Handle waits for the lock
C16_Witness ==
    /\ conc.w.pc = "Lock"
    /\ handled # <<>>
    /\ conc.rd[1].pc = "RUnlock"
    /\ conc.rd[1].res.pattern = PatVarVar
    /\ conc.rd[2].pc = "search"

\* the goroutines whose search holds a slice
Holders == {i \in Readers : conc.rd[i].buf # 0}

IsEnd(pattern) == PatElems(pattern) # <<>> /\ ElemKind(PatElems(pattern), Len(PatElems(pattern))) = "end"

\* q has the elements of p before the last, and a {name}, a {name...} or
\* the empty element after a trailing slash where p has its last
AtSamePosition(p, q) ==
    LET ep == PatElems(p)
        eq == PatElems(q)
    IN  /\ Len(eq) = Len(ep)
        /\ \A k \in 1..(Len(ep) - 1) :
              /\ ElemKind(eq, k) = ElemKind(ep, k)
              /\ ElemKind(ep, k) = "literal" => eq[k] = ep[k]
        /\ ElemKind(eq, Len(eq)) \in {"var", "wildcard"}

\* every element of the pattern before the last is a literal
LiteralBeforeLast(pattern) ==
    \A k \in 1..(Len(PatElems(pattern)) - 1) : ElemKind(PatElems(pattern), k) = "literal"

WithEllipsis(pattern) ==
    IF pattern # <<>> /\ pattern[Len(pattern)] = "/" THEN pattern \o Ellipsis ELSE pattern

\* the registrations in force, each P/ written P/{...}
TwinHandled ==
    [i \in 1..Len(handled) |-> [pattern |-> WithEllipsis(handled[i].pattern), handler |-> handled[i].handler]]

\* the multiplexer after the first k registrations of hs
RECURSIVE MuxOf(_, _)
MuxOf(hs, k) ==
    IF k = 0 THEN NewServeMux ELSE Handle(MuxOf(hs, k - 1), hs[k].pattern, hs[k].handler).mux

\* the pattern is P/, P/{...} or P/{name...}: its P/ (<<>> otherwise)
SubtreeOf(pattern) ==
    LET es == PatElems(pattern)
        path == PatPath(pattern)
    IN  IF es = <<>> \/ ElemKind(es, Len(es)) # "wildcard" THEN <<>>
        ELSE Upto(path, Len(path) - Len(es[Len(es)]))

\* the two patterns are P/, P/{...} or P/{name...} of the same P, method and host
SameSubtree(p, q) ==
    /\ SubtreeOf(p) # <<>>
    /\ SubtreeOf(p) = SubtreeOf(q)
    /\ PatMethod(p) = PatMethod(q)
    /\ PatHost(p) = PatHost(q)

\* the registrations in force before the Handle call that is returning
HandledBefore ==
    IF ret.op = "Handle" /\ ret.err = "" THEN SubSeq(handled, 1, Len(handled) - 1) ELSE handled

\* C22: a pattern whose path ends with '/' is equivalent to the pattern
\* with {...} appended.  Every request gets from the multiplexer what it
\* gets from the one built by the same registrations with each P/ written
\* P/{...}: the same handler, status, Location and variables, and the
\* same pattern but for that spelling; a Handle call returns or panics as
\* it does there; and Handle panics with a conflict when a P/, P/{...} or
\* P/{name...} of the same P, method and host is already registered.
C22_SlashIsEllipsis ==
    /\ Served =>
          LET t == ServeHTTP(MuxOf(TwinHandled, Len(handled)), ret.r).ret
          IN  /\ ~t.panic
              /\ t.h = ret.h
              /\ t.status = ret.status
              /\ t.location = ret.location
              /\ t.pathVars = ret.pathVars
              /\ t.pattern = WithEllipsis(ret.pattern)
    /\ ret.op = "Handle" =>
          /\ Handle(MuxOf(TwinHandled, Len(HandledBefore)), WithEllipsis(ret.pattern), ret.handler).err
                = ret.err
          /\ (\E i \in 1..Len(HandledBefore) : SameSubtree(HandledBefore[i].pattern, ret.pattern))
                => ret.err = "conflict"

\* with /a/ and h/a/{...} registered, /a was redirected to /a/ with the
\* pattern /a/
C22_Witness ==
    /\ Served
    /\ ret.h = "tsr"
    /\ ret.pattern = PatSubtreeA
    /\ ret.r.path = PatA
    /\ \E g \in Registered : g.pattern = <<"h">> \o PatSubtreeA \o Ellipsis

(***************************************************************************)
(* Elements that mix literal text and braces                               *)
(***************************************************************************)
\* the element holds '{' or '}' and is not wrapped as a whole in one pair
\* of braces
MixedElem(e) ==
    /\ \E i \in 1..Len(e) : e[i] \in {"{", "}"}
    /\ ~ /\ IsVarElem(e)
         /\ \A i \in 2..(Len(e) - 1) : e[i] \notin {"{", "}"}

\* C23: Handle panics for every pattern that has an element which holds a
\* brace without being wrapped as a whole in one pair of braces.
C23_MixedElementPanics ==
    (ret.op = "Handle" /\ \E k \in 1..Len(PatElems(ret.pattern)) : MixedElem(PatElems(ret.pattern)[k]))
        => ret.err # ""

(***************************************************************************)
(* Patterns without a path                                                 *)
(***************************************************************************)
\* the registrations in force that have a host and no path and serve the
\* request
HostOnlyFor(r) ==
    {g \in Registered :
        /\ PatPath(g.pattern) = <<>>
        /\ PatHost(g.pattern) = (IF r.method # MethodConnect THEN WithoutPort(r.host) ELSE r.host)
        /\ MethodUsable(g.pattern, r.method)}

\* C24 as stated: Handle panics for every pattern that has no path.
C24_Original ==
    (ret.op = "Handle" /\ PatPath(ret.pattern) = <<>>) => ret.err # ""

\* C24, amended: Handle panics for a pattern that has neither a host nor a
\* path; a pattern with a host that parses and no path is accepted unless
\* it conflicts, and its handler serves the requests for that host whose
\* path is empty, and no request with a path.
C24_HostOrPathRequired ==
    /\ (ret.op = "Handle" /\ PatPath(ret.pattern) = <<>>) =>
          /\ PatHost(ret.pattern) = <<>> => ret.err \in {"empty pattern", "syntax: no host and no path"}
          /\ PatHost(ret.pattern) = <<"h">> =>
                /\ ret.err \in {"", "conflict"}
                /\ ret.err = "conflict" <=>
                      \E i \in 1..Len(HandledBefore) : HandledBefore[i].pattern = ret.pattern
          /\ PatHost(ret.pattern) \notin {<<>>, <<"h">>} => ret.err = "syntax: host"
    /\ ServedAsIs =>
          /\ \A g \in Registered : (ResultIs(g) /\ PatPath(g.pattern) = <<>>) => g \in HostOnlyFor(ret.r)
          /\ (ret.r.path = <<>> /\ HostOnlyFor(ret.r) # {}) => \E g \in HostOnlyFor(ret.r) : ResultIs(g)
          /\ ret.r.path # <<>> => \A g \in Registered : ResultIs(g) => PatPath(g.pattern) # <<>>

\* Handle("h") has returned, and a CONNECT request for host h with an empty
\* path is served by its handler
C24_Witness ==
    /\ ServedAsIs
    /\ ret.r.path = <<>>
    /\ ret.pattern = PatHostOnly
    /\ ret.h = "h1"

(***************************************************************************)
(* Termination of the search                                               *)
(***************************************************************************)
\* a search is in its loop
InLoop == ret.op = "match" /\ ret.m.pc \notin {"End", "panic"}

\* the loop was left
LoopLeft == ret.op = "match" /\ ret.m.pc = "End"

\* C25: the search loop of match terminates, either with a handler or
\* after backtracking past the root.
C25_SearchEndsWithHandlerOrPastRoot ==
    InLoop ~> (LoopLeft /\ (ret.m.ht # <<>> \/ ret.m.cn = Nil))

(***************************************************************************)
(* The shape of the trees                                                  *)
(***************************************************************************)
\* the children the node holds: those of its table, its variable child and
\* its wildcard child
Held(n) ==
    ({nodes[n].nonvarChildren[c] : c \in DOMAIN nodes[n].nonvarChildren}
        \cup {nodes[n].unmodifiedVarChild, nodes[n].ellipsisModifiedVarChild}) \ {Nil}

\* the multiplexer is what the successful registrations made of it
OnlySuccessful == SansItems(Mux) = SansItems(MuxOf(handled, Len(handled)))

RECURSIVE ChainOf(_)
ChainOf(n) == IF n = Nil THEN <<>> ELSE Append(ChainOf(nodes[n].parent), n)

\* the number of variable and wildcard nodes among the first k of a chain
VarsOn(ch, k) == Cardinality({j \in 1..k : nodes[ch[j]].typ # nonvarServeMuxNode})

\* the prefixes of the static nodes and the recorded values of the
\* variable nodes of the first k nodes of a chain, in order
RECURSIVE ConsumedOn(_, _, _)
ConsumedOn(ch, k, pvvs) ==
    IF k = 0 THEN <<>>
    ELSE ConsumedOn(ch, k - 1, pvvs)
            \o (IF nodes[ch[k]].typ = nonvarServeMuxNode THEN nodes[ch[k]].prefix
                ELSE pvvs[1][VarsOn(ch, k)])

\* the search stands at node cn with the node's own prefix or value
\* consumed: it is about to try the variable or the wildcard child of cn,
\* it has just backtracked to cn, or it has entered a variable node
AtNode ==
    /\ ret.op = "match"
    /\ ret.m.cn # Nil
    /\ \/ ret.m.pc \in {"TryUnmodifiedVarNode", "TryEllipsisModifiedVarNode"}
       \/ ret.m.pc = "OuterLoop" /\ nodes[ret.m.cn].typ # nonvarServeMuxNode
       \/ ret.m.pc = "End" /\ ret.m.ht = <<>>

\* the search is about to compare the prefix of the static node cn
BeforeNode ==
    /\ ret.op = "match"
    /\ ret.m.pc = "OuterLoop"
    /\ nodes[ret.m.cn].typ = nonvarServeMuxNode

\* the search has consumed the first k nodes of the chain
ConsumedIs(ch, k) ==
    /\ ret.m.s = From(ret.path, ret.m.si)
    /\ Upto(ret.path, ret.m.si) = ConsumedOn(ch, k, ret.m.pvvs)
    /\ ret.m.pvi = VarsOn(ch, k)

MaxVarCount ==
    IF handled = <<>> THEN 0
    ELSE CHOOSE c \in 0..16 :
            /\ \E k \in 1..Len(handled) : VarCount(handled[k].pattern) = c
            /\ \A k \in 1..Len(handled) : VarCount(handled[k].pattern) <= c

\* some node of some tree has a variable or a wildcard child
HasVarChild ==
    \E n \in 1..Len(nodes) :
        nodes[n].unmodifiedVarChild # Nil \/ nodes[n].ellipsisModifiedVarChild # Nil

Orders(hs) ==
    {o \in [1..Len(hs) -> 1..Len(hs)] : \A i, j \in 1..Len(hs) : o[i] = o[j] => i = j}

\* the registrations hs made in the order o
InOrder(hs, o) == [k \in 1..Len(hs) |-> hs[o[k]]]

\* every one of the Handle calls hs returns
AllReturn(hs) ==
    \A k \in 1..Len(hs) : Handle(MuxOf(hs, k - 1), hs[k].pattern, hs[k].handler).err = ""

\* what the caller of Handler and of the handler it returns sees
Outcome(res) ==
    [h |-> res.h, pattern |-> res.pattern, pathVars |-> res.pathVars, status |-> res.status,
     location |-> res.location, panic |-> res.panic]

\* the outcome of the request r after the registrations hs
OutcomeAfter(hs, r) == Outcome(ServeHTTP(MuxOf(hs, Len(hs)), r).ret)

\* C29 as stated: whatever the order of the Handle calls that registered
\* the patterns, every request has the same handler, reported pattern,
\* published variables and status.
C29_AnyOrderSameResult ==
    ret.op = "ServeHTTP" =>
        \A o \in Orders(handled) :
            AllReturn(InOrder(handled, o)) => OutcomeAfter(InOrder(handled, o), ret.r) = Outcome(ret)

(***************************************************************************)
(* The lock after a registration that panicked                             *)
(***************************************************************************)
\* a call of Handle has panicked in insert and its caller has recovered:
\* the key of its pattern is in registeredPatterns and the pattern is not
\* among those of the calls that returned
Recovered ==
    /\ conc.w.pc \in {"idle", "Lock"}
    /\ \E key \in DOMAIN registeredPatterns :
          /\ registeredPatterns[key] = PatMixedOpen
          /\ \A k \in 1..Len(handled) : handled[k].pattern # PatMixedOpen

\* C30: the write lock is never held while no call of Handle is in
\* progress, whether the last call returned or panicked, and every call of
\* Handle and every call of Handler, also those made after a call of Handle
\* panicked, gets the lock and returns.
C30_LockFreeAfterPanic ==
    /\ [](conc.w.pc \in {"idle", "Lock"} => ~conc.mu.writer)
    /\ (conc.w.pc = "Lock") ~> (conc.w.pc = "idle")
    /\ \A i \in Readers : (conc.rd[i].pc = "RLock") ~> (conc.rd[i].pc = "idle")

\* after Handle("/a") returned and Handle("/a{") panicked in insert, a
\* goroutine that called Handler for /a holds the read lock and has found
\* the handler
C30_Witness ==
    /\ Recovered
    /\ conc.w.pc = "idle"
    /\ ~conc.mu.writer
    /\ \E i \in Readers :
          /\ conc.rd[i].pc = "RUnlock"
          /\ conc.rd[i].r.path = <<"/", "a">>
          /\ conc.rd[i].res.h = "h1"
====
